---------------------------- MODULE Spec2Model ----------------------------
(***************************************************************************)
(* State-machine model of the hydros agent SDK coordination core:          *)
(*   AgentStateManager   (hydros_agent_sdk/state_manager.py)               *)
(*   MessageFilter       (hydros_agent_sdk/message_filter.py)              *)
(*   SimCoordinationClient (hydros_agent_sdk/coordination_client.py)       *)
(*   MultiAgentCallback  (hydros_agent_sdk/multi_agent.py)                 *)
(*   Twins/Ontology agents (hydros_agent_sdk/agents/*.py)                  *)
(*                                                                         *)
(* Three specifications are defined over the same variables:               *)
(*   ManagerSpec : any sequence of public AgentStateManager operations.    *)
(*   FilterSpec  : the operations that decide locality and activity, with  *)
(*                 the MessageFilter evaluated on arbitrary commands.      *)
(*   Spec        : a SimCoordinationClient with a MultiAgentCallback:      *)
(*                 start, inbound messages, dispatch, agent lifecycle      *)
(*                 handlers, enqueue, send_command and the queue worker.   *)
(***************************************************************************)
EXTENDS Integers, Sequences, FiniteSets, TLC

VARIABLES
    sm,          \* AgentStateManager: the four registries and the node id
    lastOp,      \* history: the last public AgentStateManager / filter call
    agents,      \* MultiAgentCallback.agents  {context_id: {agent_code: agent}}
    queue,       \* SimCoordinationClient.out_message_queue (FIFO)
    worker,      \* number of live outbound worker threads (QueueThread)
    running,     \* SimCoordinationClient.running (Event)
    handled,     \* history: the handler invocation made by the last step
    published,   \* history: the command published on the topic by the last step
    resolved,    \* history: the queue entry the worker finished in the last step
    msgCount,    \* number of inbound messages decoded so far (LifecycleSpec:
                 \* of commands enqueued so far); numbers the command ids
    agentCount,  \* number of agent instances created by the factories so far
    config,      \* constructor arguments max_retry_count, base_retry_delay_ms
    sends,       \* per thread: its call of _send_with_retry, running or finished
    threads,     \* the thread in start()/stop(), queue_thread and the live workers
    connected,   \* SimCoordinationClient.connected (Event)
    attempted,   \* history: ids of the commands of the workers' publish attempts
    mqtt_client  \* the transport: its network loop thread, its connection to
                 \* the broker, and whether the topic subscription was issued

smVars == <<sm, lastOp>>
clientVars == <<agents, queue, worker, running, handled, published, resolved,
                msgCount, agentCount, config, sends, threads, connected, attempted, mqtt_client>>
vars == <<sm, lastOp, agents, queue, worker, running, handled, published,
          resolved, msgCount, agentCount, config, sends, threads, connected, attempted, mqtt_client>>

-----------------------------------------------------------------------------
(* Values *)

\* Python None for a context / an agent id / a node id argument
None == "None"

\* SimulationContext values are represented by their biz_scene_instance_id
CtxIds == {"c1", "c2"}
\* a context argument: a valid context, a context with empty id, or None
CtxArgs == CtxIds \cup {"", None}

AgentIds == {"a1", "a2"}
NodeIds == {"n1", "n2"}

\* HydroAgentInstance (the fields the coordination core reads)
Instance(id, node, code, ctx) ==
    [agent_id |-> id, hydros_node_id |-> node, agent_code |-> code,
     biz_scene_instance_id |-> ctx]

\* Python None passed where an agent instance is expected
NoAgent == Instance(None, None, None, None)

\* truthiness of `context and context.biz_scene_instance_id`
ValidContext(context) == context # None /\ context # ""

\* truthiness of `agent and agent.agent_id`
HasAgentId(agent) == agent # NoAgent /\ agent.agent_id # ""

\* dict[k] = v
Put(f, k, v) == [x \in (DOMAIN f) \cup {k} |-> IF x = k THEN v ELSE f[x]]

\* del dict[k]
Del(f, k) == [x \in (DOMAIN f) \ {k} |-> f[x]]

EmptyMap == [x \in {} |-> None]

-----------------------------------------------------------------------------
(* AgentStateManager: every operation is a function from manager state to  *)
(* manager state, so that handlers can compose several calls in one step.  *)

\* AgentStateManager.__init__
NewStateManager ==
    [active_contexts |-> {},
     task_states |-> EmptyMap,
     agent_instances |-> EmptyMap,
     local_agent_instances |-> {},
     hydros_node_id |-> None]

\* TaskState.__init__ (agent_ids, created_at and terminated_at are bookkeeping
\* that no operation of the coordination core reads back; they are left out)
TaskState(context_id) ==
    [context_id |-> context_id, status |-> "INITIALIZING"]

set_node_id(s, node_id) == [s EXCEPT !.hydros_node_id = node_id]

\* mutant: the context is toggled instead of added
add_active_context_toggle(s, context) ==
    IF ValidContext(context)
    THEN [s EXCEPT !.active_contexts =
            IF context \in @ THEN @ \ {context} ELSE @ \cup {context}]
    ELSE s

add_active_context(s, context) ==
    IF ValidContext(context)
    THEN [s EXCEPT !.active_contexts = @ \cup {context}]
    ELSE s

remove_active_context(s, context) ==
    IF ValidContext(context)
    THEN [s EXCEPT !.active_contexts = @ \ {context}]
    ELSE s

\* mutant: activity read from the task table instead of the active-context set
has_active_context_by_task(s, context) ==
    IF ~ValidContext(context)
    THEN FALSE
    ELSE context \in DOMAIN s.task_states

has_active_context(s, context) ==
    IF ~ValidContext(context)
    THEN FALSE
    ELSE context \in s.active_contexts

\* mutant: an agent is registered whether or not it carries an agent_id
register_agent_instance_unchecked(s, agent) ==
    IF agent # NoAgent
    THEN [s EXCEPT !.agent_instances = Put(@, agent.agent_id, agent)]
    ELSE s

\* mutant: an id that is already registered keeps its first instance
register_agent_instance_keep_first(s, agent) ==
    IF HasAgentId(agent) /\ agent.agent_id \notin DOMAIN s.agent_instances
    THEN [s EXCEPT !.agent_instances = Put(@, agent.agent_id, agent)]
    ELSE s

register_agent_instance(s, agent) ==
    IF HasAgentId(agent)
    THEN [s EXCEPT !.agent_instances = Put(@, agent.agent_id, agent)]
    ELSE s

unregister_agent_instance(s, agent_id) ==
    IF agent_id \in DOMAIN s.agent_instances
    THEN [s EXCEPT !.agent_instances = Del(@, agent_id)]
    ELSE s

get_agent_instance(s, agent_id) ==
    IF agent_id \in DOMAIN s.agent_instances
    THEN s.agent_instances[agent_id]
    ELSE NoAgent

add_local_agent(s, agent_instance) ==
    IF HasAgentId(agent_instance)
    THEN [s EXCEPT !.local_agent_instances = @ \cup {agent_instance.agent_id}]
    ELSE s

remove_local_agent(s, agent_instance) ==
    IF HasAgentId(agent_instance)
    THEN [s EXCEPT !.local_agent_instances = @ \ {agent_instance.agent_id}]
    ELSE s

\* mutant: the node-id comparison is made before the local-agent set is read
is_local_agent_node_first(s, agent_instance) ==
    IF agent_instance = NoAgent
    THEN FALSE
    ELSE IF s.hydros_node_id # None /\ s.hydros_node_id # ""
            /\ agent_instance.hydros_node_id = s.hydros_node_id
    THEN TRUE
    ELSE agent_instance.agent_id \in s.local_agent_instances

is_local_agent(s, agent_instance) ==
    IF agent_instance = NoAgent
    THEN FALSE
    ELSE IF agent_instance.agent_id \in s.local_agent_instances
    THEN TRUE
    ELSE IF s.hydros_node_id # None /\ s.hydros_node_id # ""
            /\ agent_instance.hydros_node_id = s.hydros_node_id
    THEN (IF agent_instance.agent_id # "" THEN FALSE ELSE TRUE)
    ELSE FALSE

\* mutant: an instance without agent_id is never remote
is_remote_agent_known_only(s, agent_instance) ==
    IF ~HasAgentId(agent_instance)
    THEN FALSE
    ELSE ~is_local_agent(s, agent_instance)

is_remote_agent(s, agent_instance) ==
    IF agent_instance = NoAgent
    THEN FALSE
    ELSE ~is_local_agent(s, agent_instance)

\* the loop `for agent in agents: if agent and agent.agent_id: register(agent)`
RECURSIVE RegisterAll(_, _)
RegisterAll(s, agentList) ==
    IF agentList = <<>>
    THEN s
    ELSE RegisterAll(register_agent_instance(s, Head(agentList)), Tail(agentList))

\* mutant: the task is created and its agents registered, but the context is
\* never added to the active set
init_task_no_activate(s, context, agentList) ==
    IF ~ValidContext(context)
    THEN s
    ELSE LET s1 == [s EXCEPT !.task_states = Put(@, context, TaskState(context))]
             s2 == RegisterAll(s1, agentList)
         IN  [s2 EXCEPT !.task_states[context].status = "ACTIVE"]

init_task(s, context, agentList) ==
    IF ~ValidContext(context)
    THEN s
    ELSE LET task_state == TaskState(context)
             s1 == [s EXCEPT !.task_states = Put(@, context, task_state)]
             s2 == RegisterAll(s1, agentList)
             s3 == add_active_context(s2, context)
         IN  [s3 EXCEPT !.task_states[context].status = "ACTIVE"]

\* mutant: the task is marked TERMINATED but its context stays active
terminate_task_keep_active(s, context) ==
    IF ~ValidContext(context)
    THEN s
    ELSE IF context \in DOMAIN s.task_states
    THEN [s EXCEPT !.task_states[context].status = "TERMINATED"]
    ELSE s

terminate_task(s, context) ==
    IF ~ValidContext(context)
    THEN s
    ELSE LET known == context \in DOMAIN s.task_states
             s1 == IF known
                   THEN [s EXCEPT !.task_states[context].status = "TERMINATING"]
                   ELSE s
             s2 == remove_active_context(s1, context)
         IN  IF known
             THEN [s2 EXCEPT !.task_states[context].status = "TERMINATED"]
             ELSE s2

clear(s) ==
    [s EXCEPT !.active_contexts = {},
              !.task_states = EmptyMap,
              !.agent_instances = EmptyMap,
              !.local_agent_instances = {}]

-----------------------------------------------------------------------------
(* Commands (hydros_agent_sdk/protocol/commands.py) *)

SIMCMD_TASK_INIT_REQUEST == "task_init_request"
SIMCMD_TASK_INIT_RESPONSE == "task_init_response"
SIMCMD_TASK_TERMINATE_REQUEST == "task_terminate_request"
SIMCMD_TASK_TERMINATE_RESPONSE == "task_terminate_response"
SIMCMD_TICK_CMD_REQUEST == "tick_cmd_request"
SIMCMD_TICK_CMD_RESPONSE == "tick_cmd_response"
SIMCMD_TIME_SERIES_CALCULATION_REQUEST == "calculation_request"
SIMCMD_TIME_SERIES_CALCULATION_RESPONSE == "calculation_response"
SIMCMD_TIME_SERIES_DATA_UPDATE_REQUEST == "time_series_data_update_request"
SIMCMD_TIME_SERIES_DATA_UPDATE_RESPONSE == "time_series_data_update_response"
SIMCMD_AGENT_INSTANCE_STATUS_REPORT == "report_agent_instance_status"
SIMCMD_IDENTIFIED_PARAMS_REPORT == "identified_params_report"
SIMCMD_HYDRO_ALERT_REPORT == "report_hydro_alert"

\* the subclasses of SimCoordinationRequest
SimCoordinationRequest ==
    {SIMCMD_TASK_INIT_REQUEST, SIMCMD_TASK_TERMINATE_REQUEST,
     SIMCMD_TICK_CMD_REQUEST, SIMCMD_TIME_SERIES_CALCULATION_REQUEST,
     SIMCMD_TIME_SERIES_DATA_UPDATE_REQUEST}

\* the subclasses of SimCoordinationResponse
SimCoordinationResponse ==
    {SIMCMD_TASK_INIT_RESPONSE, SIMCMD_TASK_TERMINATE_RESPONSE,
     SIMCMD_TICK_CMD_RESPONSE, SIMCMD_TIME_SERIES_CALCULATION_RESPONSE,
     SIMCMD_TIME_SERIES_DATA_UPDATE_RESPONSE}

\* the report classes, which derive from SimCommand directly
ReportTypes ==
    {SIMCMD_AGENT_INSTANCE_STATUS_REPORT, SIMCMD_IDENTIFIED_PARAMS_REPORT,
     SIMCMD_HYDRO_ALERT_REPORT}

\* the members of CommandUnion
CommandUnion == SimCoordinationRequest \cup SimCoordinationResponse \cup ReportTypes

\* A command: requests carry no source_agent_instance (NoAgent here);
\* agent_list is the list of agent codes of a SimTaskInitRequest;
\* created_agent_instances is a field of SimTaskInitResponse and
\* object_time_series_list one of TimeSeriesCalculationResponse, empty elsewhere.
Command(type, id, ctx, source, status, codes) ==
    [command_type |-> type, command_id |-> id, context |-> ctx,
     source_agent_instance |-> source, command_status |-> status,
     agent_list |-> codes, created_agent_instances |-> <<>>,
     object_time_series_list |-> <<>>]

\* SimTaskInitResponse(command_id, context, command_status,
\* source_agent_instance, created_agent_instances)
SimTaskInitResponse(id, ctx, source, status, created) ==
    [Command(SIMCMD_TASK_INIT_RESPONSE, id, ctx, source, status, <<>>)
        EXCEPT !.created_agent_instances = created]

NoCommand == Command(None, None, None, NoAgent, None, <<>>)

-----------------------------------------------------------------------------
(* MessageFilter *)

\* mutant: no exception for SimTaskInitRequest
is_active_to_task_no_init_exception(s, sim_command) ==
    IF sim_command.context # None
    THEN has_active_context(s, sim_command.context)
    ELSE FALSE

is_active_to_task_sim_command(s, sim_command) ==
    IF sim_command.command_type = SIMCMD_TASK_INIT_REQUEST
    THEN TRUE
    ELSE IF sim_command.context # None
    THEN has_active_context(s, sim_command.context)
    ELSE FALSE

\* mutant: reports and init responses are received whatever their source
is_received_echo(s, sim_command) ==
    IF sim_command.command_type \in SimCoordinationRequest
    THEN TRUE
    ELSE IF sim_command.command_type = SIMCMD_AGENT_INSTANCE_STATUS_REPORT
    THEN TRUE
    ELSE IF sim_command.command_type = SIMCMD_TASK_INIT_RESPONSE
    THEN TRUE
    ELSE FALSE

\* mutant: every response and report of a remote agent is received
is_received_any_remote(s, sim_command) ==
    IF sim_command.command_type \in SimCoordinationRequest
    THEN TRUE
    ELSE is_remote_agent(s, sim_command.source_agent_instance)

is_received(s, sim_command) ==
    IF sim_command.command_type \in SimCoordinationRequest
    THEN TRUE
    ELSE IF sim_command.command_type = SIMCMD_AGENT_INSTANCE_STATUS_REPORT
    THEN is_remote_agent(s, sim_command.source_agent_instance)
    ELSE IF sim_command.command_type = SIMCMD_TASK_INIT_RESPONSE
    THEN is_remote_agent(s, sim_command.source_agent_instance)
    ELSE FALSE

\* mutant: the filter skips the active-context check
should_process_message_no_active_check(s, sim_command) ==
    is_received(s, sim_command)

should_process_message(s, sim_command) ==
    IF ~is_active_to_task_sim_command(s, sim_command)
    THEN FALSE
    ELSE IF ~is_received(s, sim_command)
    THEN FALSE
    ELSE TRUE

-----------------------------------------------------------------------------
(* Arguments offered to the public operations, and the call history.       *)

\* longest agent list passed to init_task
MaxAgentList == 2

\* agent instance arguments: two instances with an id, one without, and None
InstanceArgs ==
    {Instance("a1", "n1", "", ""), Instance("a2", "n2", "", ""),
     Instance("", "n1", "", ""), NoAgent}

RECURSIVE SeqsUpTo(_, _)
SeqsUpTo(S, n) ==
    IF n = 0
    THEN {<<>>}
    ELSE LET shorter == SeqsUpTo(S, n - 1)
         IN  shorter \cup {Append(q, x) : q \in {r \in shorter : Len(r) = n - 1}, x \in S}

AgentListArgs == SeqsUpTo(InstanceArgs, MaxAgentList)

\* the agent ids carried by the instances of a list
IdSetOf(agentList) ==
    {agentList[i].agent_id : i \in {j \in DOMAIN agentList : HasAgentId(agentList[j])}}

\* source agent instances of decoded responses and reports (agent_id is a
\* required string of the schema, the empty string included)
SourceArgs ==
    {Instance("a1", "n1", "", ""), Instance("a2", "n2", "", ""),
     Instance("", "n1", "", ""), Instance("", "n2", "", "")}

\* decoded commands offered to the filter
FilterCommands ==
    {Command(type, "k", ctx, NoAgent, None, <<>>) :
        type \in SimCoordinationRequest, ctx \in CtxIds \cup {""}}
    \cup
    {Command(type, "k", ctx, src, "SUCCEED", <<>>) :
        type \in SimCoordinationResponse \cup ReportTypes,
        ctx \in CtxIds \cup {""}, src \in SourceArgs}

\* the last public call: its name, its context argument, its agent argument
\* (for init_task: the ids of the listed agents), its command and its result
Op(name, context, agent, ids, cmd, result) ==
    [op |-> name, context |-> context, agent |-> agent, ids |-> ids,
     cmd |-> cmd, result |-> result]

NoOp == Op("none", None, NoAgent, {}, NoCommand, FALSE)

ClientUnchanged == UNCHANGED clientVars

SetNodeId ==
    \E node \in {"n1"} :
        /\ sm' = set_node_id(sm, node)
        /\ lastOp' = Op("set_node_id", None, NoAgent, {}, NoCommand, FALSE)
        /\ ClientUnchanged

AddActiveContext ==
    \E context \in CtxArgs :
        /\ sm' = add_active_context(sm, context)
        /\ lastOp' = Op("add_active_context", context, NoAgent, {}, NoCommand, FALSE)
        /\ ClientUnchanged

RemoveActiveContext ==
    \E context \in CtxArgs :
        /\ sm' = remove_active_context(sm, context)
        /\ lastOp' = Op("remove_active_context", context, NoAgent, {}, NoCommand, FALSE)
        /\ ClientUnchanged

HasActiveContext ==
    \E context \in CtxArgs :
        /\ sm' = sm
        /\ lastOp' = Op("has_active_context", context, NoAgent, {}, NoCommand,
                        has_active_context(sm, context))
        /\ ClientUnchanged

\* instances offered to register_agent_instance: the agent arguments and a
\* second instance carrying the id "a1"
RegisterArgs == InstanceArgs \cup {Instance("a1", "n2", "", "")}

RegisterAgentInstance ==
    \E agent \in RegisterArgs :
        /\ sm' = register_agent_instance(sm, agent)
        /\ lastOp' = Op("register_agent_instance", None, agent, {}, NoCommand, FALSE)
        /\ ClientUnchanged

UnregisterAgentInstance ==
    \E agent_id \in AgentIds \cup {"", None} :
        /\ sm' = unregister_agent_instance(sm, agent_id)
        /\ lastOp' = Op("unregister_agent_instance", None, NoAgent, {agent_id},
                        NoCommand, FALSE)
        /\ ClientUnchanged

AddLocalAgent ==
    \E agent \in InstanceArgs :
        /\ sm' = add_local_agent(sm, agent)
        /\ lastOp' = Op("add_local_agent", None, agent, {}, NoCommand, FALSE)
        /\ ClientUnchanged

RemoveLocalAgent ==
    \E agent \in InstanceArgs :
        /\ sm' = remove_local_agent(sm, agent)
        /\ lastOp' = Op("remove_local_agent", None, agent, {}, NoCommand, FALSE)
        /\ ClientUnchanged

IsLocalAgent ==
    \E agent \in SourceArgs \cup {NoAgent} :
        /\ sm' = sm
        /\ lastOp' = Op("is_local_agent", None, agent, {}, NoCommand,
                        is_local_agent(sm, agent))
        /\ ClientUnchanged

IsRemoteAgent ==
    \E agent \in SourceArgs \cup {NoAgent} :
        /\ sm' = sm
        /\ lastOp' = Op("is_remote_agent", None, agent, {}, NoCommand,
                        is_remote_agent(sm, agent))
        /\ ClientUnchanged

InitTask(lists) ==
    \E context \in CtxArgs, agentList \in lists :
        /\ sm' = init_task(sm, context, agentList)
        /\ lastOp' = Op("init_task", context, NoAgent, IdSetOf(agentList),
                        NoCommand, FALSE)
        /\ ClientUnchanged

TerminateTask ==
    \E context \in CtxArgs :
        /\ sm' = terminate_task(sm, context)
        /\ lastOp' = Op("terminate_task", context, NoAgent, {}, NoCommand, FALSE)
        /\ ClientUnchanged

Clear ==
    /\ sm' = clear(sm)
    /\ lastOp' = Op("clear", None, NoAgent, {}, NoCommand, FALSE)
    /\ ClientUnchanged

ShouldProcessMessage ==
    \E cmd \in FilterCommands :
        /\ sm' = sm
        /\ lastOp' = Op("should_process_message", cmd.context, NoAgent, {}, cmd,
                        should_process_message(sm, cmd))
        /\ ClientUnchanged

\* an entry of out_message_queue, with the code path that enqueued it
Entry(cmd, origin) == [cmd |-> cmd, origin |-> origin]

\* the last step invoked no handler
NoHandled ==
    [cmd |-> NoCommand, handler |-> None, active |-> FALSE, status |-> None,
     raised |-> FALSE, outcome |-> None]

\* the topic the client subscribes to and publishes commands on
topic == "coordination"

\* metrics_topic = f"{self.sim_coordination_client.topic}/metrics"
metrics_topic == topic \o "/metrics"

\* the last step published nothing; otherwise cmd is the command published
\* (NoCommand for a payload that is not a command), by the thread that
\* called mqtt_client.publish and topic the topic published on
NoPublication == [cmd |-> NoCommand, by |-> None, topic |-> None]

\* the last step was not a worker iteration
NoResolution ==
    [entry |-> Entry(NoCommand, None), local |-> FALSE, outcome |-> None]

\* SimCoordinationClient.__init__(base_retry_delay_ms=1000)
base_retry_delay_ms == 1000

\* SimCoordinationClient.__init__(max_retry_count=5)
max_retry_count == 5

\* the retry arguments of the constructor
\* the thread bookkeeping after construction: nobody is inside start() or
\* stop(), queue_thread is None, no worker thread was ever started
NoThreads == [api |-> "ready", queue_thread |-> None, started |-> 0, pcs |-> EmptyMap]

\* mqtt.Client(...) after construction: loop_start() not called, no
\* connection, no subscription
NoTransport == [loop |-> FALSE, link |-> "closed", subscribed |-> FALSE]

Config(retries, delay_ms) ==
    [max_retry_count |-> retries, base_retry_delay_ms |-> delay_ms]

\* the client as constructed: nothing queued, not running, no worker thread
ClientInit ==
    /\ config = Config(max_retry_count, base_retry_delay_ms)
    /\ sends = EmptyMap
    /\ threads = NoThreads
    /\ connected = FALSE
    /\ mqtt_client = NoTransport
    /\ attempted = <<>>
    /\ agents = EmptyMap
    /\ queue = <<>>
    /\ worker = 0
    /\ running = FALSE
    /\ handled = NoHandled
    /\ published = NoPublication
    /\ resolved = NoResolution
    /\ msgCount = 0
    /\ agentCount = 0

ManagerInit ==
    /\ sm = NewStateManager
    /\ lastOp = NoOp
    /\ ClientInit

(* ManagerSpec: the context, task and registry operations of                *)
(* AgentStateManager, called in any order with valid and invalid arguments. *)
ManagerNext ==
    \/ AddActiveContext
    \/ RemoveActiveContext
    \/ HasActiveContext
    \/ RegisterAgentInstance
    \/ UnregisterAgentInstance
    \/ AddLocalAgent
    \/ RemoveLocalAgent
    \/ InitTask(AgentListArgs)
    \/ TerminateTask
    \/ Clear

ManagerSpec == ManagerInit /\ [][ManagerNext]_vars

(* FilterSpec: the operations that decide locality and activity (contexts,  *)
(* local-agent set, node id) in any order, with is_local_agent,             *)
(* is_remote_agent and MessageFilter.should_process_message evaluated on    *)
(* any decoded command in every state they reach.                           *)
FilterNext ==
    \/ SetNodeId
    \/ AddActiveContext
    \/ RemoveActiveContext
    \/ InitTask({<<>>})
    \/ TerminateTask
    \/ AddLocalAgent
    \/ RemoveLocalAgent
    \/ Clear
    \/ IsLocalAgent
    \/ IsRemoteAgent
    \/ ShouldProcessMessage

FilterSpec == ManagerInit /\ [][FilterNext]_vars

-----------------------------------------------------------------------------
(* SimCoordinationClient with a MultiAgentCallback hosting Twins/Ontology   *)
(* agents.                                                                   *)

\* inbound messages decoded in one behaviour
MaxMsgs == 3
\* agent instances the factories create in one behaviour
MaxAgents == 3
\* longest out_message_queue explored
MaxQueue == 2
\* entries enqueued by the application that wait in the queue at one time
MaxApiQueued == 1

\* the agent codes registered with MultiAgentCallback.register_agent_factory
agent_factories == {"A", "B"}

\* the agent codes a SimTaskInitRequest may list ("X" has no factory here)
AgentCodes == agent_factories \cup {"X"}

\* env_config['hydros_node_id'] given to every created agent
FactoryNodeId == "n1"

\* HydroAgentFactory.generate_agent_instance_id: unique per created instance
generate_agent_instance_id(n, agent_code) ==
    "AGT" \o ToString(n) \o "_" \o agent_code

\* the agent object a factory creates: its HydroAgentInstance and its status
Agent(inst, status) == [inst |-> inst, agent_biz_status |-> status]

\* HydroAgentFactory.create_agent
create_agent(n, agent_code, context) ==
    Agent(Instance(generate_agent_instance_id(n, agent_code), FactoryNodeId,
                   agent_code, context), "INIT")

\* the drive_mode of a created agent: create_agent passes none to the agent
\* class, so the default of the class applies; the class behind factory "B"
\* is one an application declares with AgentDriveMode.PROACTIVE
drive_mode(agent) ==
    IF agent.inst.agent_code = "B" THEN "PROACTIVE" ELSE "SIM_TICK_DRIVEN"

\* mutant: no handler is registered for SimTaskInitResponse
handlers_without_init_response ==
    {SIMCMD_TASK_INIT_REQUEST, SIMCMD_TICK_CMD_REQUEST,
     SIMCMD_TASK_TERMINATE_REQUEST, SIMCMD_TIME_SERIES_DATA_UPDATE_REQUEST,
     SIMCMD_TIME_SERIES_CALCULATION_REQUEST, SIMCMD_AGENT_INSTANCE_STATUS_REPORT}

\* the keys of SimCoordinationClient.handlers
handlers ==
    {SIMCMD_TASK_INIT_REQUEST, SIMCMD_TASK_INIT_RESPONSE, SIMCMD_TICK_CMD_REQUEST,
     SIMCMD_TASK_TERMINATE_REQUEST, SIMCMD_TIME_SERIES_DATA_UPDATE_REQUEST,
     SIMCMD_TIME_SERIES_CALCULATION_REQUEST, SIMCMD_AGENT_INSTANCE_STATUS_REPORT}

\* an MQTT payload as the decoding steps of _on_message see it: are the bytes
\* valid UTF-8, is the text valid JSON, and the JSON object, given as a
\* command record in which None stands for a missing field
Payload(utf8, json, data) == [utf8 |-> utf8, json |-> json, data |-> data]

\* command.model_dump_json(by_alias=True)
model_dump_json(command) == Payload(TRUE, TRUE, command)

\* the required fields of the command classes: command_id and context for
\* every command, source_agent_instance for responses and reports
schema_valid(data) ==
    /\ data.command_id # None
    /\ data.context # None
    /\ data.command_type \in SimCoordinationResponse \cup ReportTypes
          => data.source_agent_instance # NoAgent

\* msg.payload.decode("utf-8"), json.loads, SimCommandEnvelope(command=data):
\* the command, or the exception raised on the way
decode(payload) ==
    IF ~payload.utf8
    THEN [error |-> "UnicodeDecodeError", command |-> NoCommand]
    ELSE IF ~payload.json
    THEN [error |-> "JSONDecodeError", command |-> NoCommand]
    ELSE IF payload.data.command_type \notin CommandUnion
    THEN [error |-> "ValidationError", command |-> NoCommand]
    ELSE IF ~schema_valid(payload.data)
    THEN [error |-> "ValidationError", command |-> NoCommand]
    ELSE [error |-> None, command |-> payload.data]

\* mutant: the handler call is not wrapped in try/except
handle_incoming_message_no_catch(command, raises) ==
    IF command.command_type \notin handlers
    THEN "no_handler"
    ELSE IF raises THEN "propagated" ELSE "handled"

\* SimCoordinationClient._handle_incoming_message: how the dispatch of a
\* command ends when the callback method it reaches raises or returns
handle_incoming_message(command, raises) ==
    IF command.command_type \notin handlers
    THEN "no_handler"
    ELSE IF raises THEN "handler_error" ELSE "handled"

\* mutant: the body of _on_message is not wrapped in try/except
on_message_no_catch(s, payload, raises) ==
    LET decoded == decode(payload)
    IN  IF decoded.error # None
        THEN "propagated"
        ELSE IF ~should_process_message(s, decoded.command)
        THEN "filtered"
        ELSE handle_incoming_message(decoded.command, raises)

\* SimCoordinationClient._on_message: how the transport callback ends for a
\* payload; every exception raised in its body is logged there
on_message(s, payload, raises) ==
    LET decoded == decode(payload)
    IN  IF decoded.error # None
        THEN "decode_error"
        ELSE IF ~should_process_message(s, decoded.command)
        THEN "filtered"
        ELSE LET dispatched == handle_incoming_message(decoded.command, raises)
             IN  IF dispatched = "propagated" THEN "message_error" ELSE dispatched

\* a response of an agent to a request: same command_id, the agent's context,
\* the agent itself as source
Response(type, request, agent, status) ==
    Command(type, request.command_id, agent.inst.biz_scene_instance_id,
            agent.inst, status, <<>>)

\* TwinsSimulationAgent.on_init / OntologySimulationAgent.on_init: on success
\* the agent becomes ACTIVE, calls init_task(context, [self]) and
\* add_local_agent(self); on an exception while loading it does neither.
\* The result is the manager state, the agent and the returned response.
on_init(s, agent, request, ok) ==
    IF ok
    THEN [s |-> add_local_agent(
                    init_task(s, agent.inst.biz_scene_instance_id, <<agent.inst>>),
                    agent.inst),
          agent |-> Agent(agent.inst, "ACTIVE"),
          response |-> Response(SIMCMD_TASK_INIT_RESPONSE, request,
                                Agent(agent.inst, "ACTIVE"), "SUCCEED")]
    ELSE [s |-> s,
          agent |-> agent,
          response |-> Response(SIMCMD_TASK_INIT_RESPONSE, request, agent, "FAILED")]

\* how a call of TickableAgent.on_tick goes. Its first statement calls
\* self._set_agent_logging_context(), a method no class of the SDK defines:
\* unless the application's agent class provides it the lookup raises
\* ("attribute_error"). Otherwise on_tick_simulation raises, returns nothing
\* to send, returns metrics dictionaries (as TickableAgent declares) or
\* returns MqttMetrics objects (as TwinsSimulationAgent does).
TickOutcomes ==
    {"attribute_error", "step_raises", "no_metrics", "dict_metrics", "object_metrics"}

\* TickableAgent.send_metrics_batch: metrics_dict['object_id'] raises for an
\* MqttMetrics object; dictionaries are converted and each is published by
\* utils.send_metrics on the calling thread, which catches every exception
send_metrics_batch(outcome) ==
    IF outcome = "object_metrics"
    THEN [raised |-> TRUE, publishes |-> 0]
    ELSE [raised |-> FALSE, publishes |-> 1]

\* TickableAgent.on_tick: whether the call raises, the response it returns
\* otherwise, and the number of metrics messages it published on the way
on_tick(agent, request, outcome) ==
    IF outcome = "attribute_error"
    THEN [raised |-> TRUE, response |-> NoCommand, publishes |-> 0]
    ELSE IF outcome = "step_raises"
    THEN [raised |-> FALSE, publishes |-> 0,
          response |-> Response(SIMCMD_TICK_CMD_RESPONSE, request, agent, "FAILED")]
    ELSE IF outcome = "no_metrics"
    THEN [raised |-> FALSE, publishes |-> 0,
          response |-> Response(SIMCMD_TICK_CMD_RESPONSE, request, agent, "SUCCEED")]
    ELSE LET sent == send_metrics_batch(outcome)
         IN  [raised |-> FALSE, publishes |-> sent.publishes,
              response |-> Response(SIMCMD_TICK_CMD_RESPONSE, request, agent,
                                    IF sent.raised THEN "FAILED" ELSE "SUCCEED")]

\* how a call of TickableAgent.on_time_series_data_update goes: the lookup of
\* _set_agent_logging_context raises, the update raises inside the try, or
\* the update returns
UpdateOutcomes == {"attribute_error", "update_raises", "ok"}

\* TickableAgent.on_time_series_data_update
on_time_series_data_update(agent, request, outcome) ==
    IF outcome = "attribute_error"
    THEN [raised |-> TRUE, response |-> NoCommand, publishes |-> 0]
    ELSE [raised |-> FALSE, publishes |-> 0,
          response |-> Response(SIMCMD_TIME_SERIES_DATA_UPDATE_RESPONSE, request, agent,
                                IF outcome = "ok" THEN "SUCCEED" ELSE "FAILED")]

\* the loop of MultiAgentCallback.on_tick / on_time_series_data_update over
\* the results of the agents' methods: a response is enqueued by
\* send_response, an exception is logged and the loop goes on
RECURSIVE Forwarded(_, _)
Forwarded(results, origin) ==
    IF results = <<>>
    THEN <<>>
    ELSE IF Head(results).raised
    THEN Forwarded(Tail(results), origin)
    ELSE <<Entry(Head(results).response, origin)>> \o Forwarded(Tail(results), origin)

\* what the agents' methods published themselves during the loop
DirectPublication(results) ==
    IF \E i \in DOMAIN results : results[i].publishes > 0
    THEN [cmd |-> NoCommand, by |-> "callback", topic |-> metrics_topic]
    ELSE NoPublication

\* mutant: on_terminate leaves the agent in the local-agent set
on_terminate_keep_local(s, agent, request) ==
    [s |-> terminate_task(s, agent.inst.biz_scene_instance_id),
     response |-> Response(SIMCMD_TASK_TERMINATE_RESPONSE, request, agent, "SUCCEED")]

\* TwinsSimulationAgent.on_terminate / OntologySimulationAgent.on_terminate:
\* terminate_task(context), remove_local_agent(self), then the response
on_terminate(s, agent, request) ==
    [s |-> remove_local_agent(
               terminate_task(s, agent.inst.biz_scene_instance_id), agent.inst),
     response |-> Response(SIMCMD_TASK_TERMINATE_RESPONSE, request, agent, "SUCCEED")]

\* context_agents[agent_code] = agent on an insertion-ordered dict, kept as
\* the sequence of its values
DictSet(d, agent) ==
    IF \E i \in DOMAIN d : d[i].inst.agent_code = agent.inst.agent_code
    THEN [i \in DOMAIN d |->
            IF d[i].inst.agent_code = agent.inst.agent_code THEN agent ELSE d[i]]
    ELSE Append(d, agent)

\* what each listed agent does in on_sim_task_init
InitOutcomes == {"ok", "init_failed", "create_failed"}

\* the locals of on_sim_task_init before its loop
NoAgentsYet(s, n) ==
    [s |-> s, n |-> n, calls |-> <<>>, created_agents |-> <<>>, context_agents |-> <<>>]

\* mutant: the loop over request.agent_list ends at the first agent that
\* cannot be created
RECURSIVE InitAgents_stop_on_failure(_, _, _, _)
InitAgents_stop_on_failure(acc, codes, outcomes, request) ==
    IF codes = <<>>
    THEN acc
    ELSE IF Head(codes) \notin agent_factories
    THEN InitAgents_stop_on_failure(acc, Tail(codes), Tail(outcomes), request)
    ELSE IF Head(outcomes) = "create_failed"
    THEN acc
    ELSE LET agent == create_agent(acc.n + 1, Head(codes), request.context)
             r == on_init(acc.s, agent, request, Head(outcomes) = "ok")
         IN  InitAgents_stop_on_failure(
                        [s |-> r.s,
                         n |-> acc.n + 1,
                         calls |-> Append(acc.calls, Head(codes)),
                         created_agents |->
                            Append(acc.created_agents, r.response.source_agent_instance),
                         context_agents |-> DictSet(acc.context_agents, r.agent)],
                        Tail(codes), Tail(outcomes), request)

\* MultiAgentCallback.on_sim_task_init, the loop over request.agent_list:
\* acc carries the manager state s, the number n of instances created so far,
\* the agent codes factory.create_agent was called for (calls), created_agents
\* and context_agents.
RECURSIVE InitAgents(_, _, _, _)
InitAgents(acc, codes, outcomes, request) ==
    IF codes = <<>>
    THEN acc
    ELSE IF Head(codes) \notin agent_factories
    THEN InitAgents(acc, Tail(codes), Tail(outcomes), request)
    ELSE IF Head(outcomes) = "create_failed"
    THEN InitAgents([acc EXCEPT !.calls = Append(@, Head(codes))],
                    Tail(codes), Tail(outcomes), request)
    ELSE LET agent == create_agent(acc.n + 1, Head(codes), request.context)
             r == on_init(acc.s, agent, request, Head(outcomes) = "ok")
         IN  InitAgents([s |-> r.s,
                         n |-> acc.n + 1,
                         calls |-> Append(acc.calls, Head(codes)),
                         created_agents |->
                            Append(acc.created_agents, r.response.source_agent_instance),
                         context_agents |-> DictSet(acc.context_agents, r.agent)],
                        Tail(codes), Tail(outcomes), request)

\* MultiAgentCallback.on_task_terminate, the loop over the context's agents:
\* the manager state after every agent's on_terminate
RECURSIVE TerminateAgents(_, _, _)
TerminateAgents(s, context_agents, request) ==
    IF context_agents = <<>>
    THEN s
    ELSE TerminateAgents(on_terminate(s, Head(context_agents), request).s,
                         Tail(context_agents), request)

\* self.agents.get(context_id), an absent context giving the empty dict
AgentsOf(context_id) ==
    IF context_id \in DOMAIN agents THEN agents[context_id] ELSE <<>>

\* SimCoordinationClient._should_send
should_send(s, command) ==
    IF command.command_type \in SimCoordinationRequest
    THEN FALSE
    ELSE IF command.command_type \in SimCoordinationResponse
    THEN is_local_agent(s, command.source_agent_instance)
    ELSE IF command.command_type = SIMCMD_AGENT_INSTANCE_STATUS_REPORT
    THEN is_local_agent(s, command.source_agent_instance)
    ELSE FALSE

\* numbers of consecutive failing publish attempts explored: none, as many
\* as are retried, and one more
FailureCounts == {0, max_retry_count, max_retry_count + 1}

\* SimCoordinationClient._send_with_retry, given the number of consecutive
\* publish attempts that fail before one succeeds: "sent" with at most
\* max_retry_count failures, else the exception is raised ("failed")
RECURSIVE send_with_retry(_, _)
send_with_retry(attempt, failures) ==
    IF attempt > max_retry_count
    THEN "failed"
    ELSE IF failures = 0
    THEN "sent"
    ELSE send_with_retry(attempt + 1, failures - 1)

\* 2 ** n
RECURSIVE Pow2(_)
Pow2(n) == IF n = 0 THEN 1 ELSE 2 * Pow2(n - 1)

\* a call of _send_with_retry that has just been entered: the command, the
\* local variable attempt, the publish attempts made so far, the delays slept
\* so far, and the position ("publish": in the loop, before a publish attempt;
\* "returned"; "raised")
Call(command) ==
    [command |-> command, attempt |-> 0, attempts |-> 0, delays |-> <<>>,
     pc |-> "publish"]

\* mutant: the delay grows linearly
backoff_delay_linear(cfg, attempt) ==
    cfg.base_retry_delay_ms * (attempt + 1)

\* delay_ms = self.base_retry_delay_ms * (2 ** attempt)
backoff_delay(cfg, attempt) ==
    cfg.base_retry_delay_ms * Pow2(attempt)

\* mutant: the budget is exhausted one attempt early
publish_attempt_raise_early(cfg, call, ok) ==
    IF ok
    THEN [call EXCEPT !.attempts = @ + 1, !.pc = "returned"]
    ELSE IF call.attempt + 1 >= cfg.max_retry_count
    THEN [call EXCEPT !.attempts = @ + 1, !.attempt = @ + 1, !.pc = "raised"]
    ELSE [call EXCEPT !.attempts = @ + 1, !.attempt = @ + 1,
                      !.delays = Append(@, backoff_delay(cfg, call.attempt + 1))]

\* one pass of the loop of _send_with_retry: the publish attempt succeeds and
\* the call returns, or it raises, attempt is incremented and the call either
\* re-raises (budget exhausted) or sleeps the backoff delay and loops
publish_attempt(cfg, call, ok) ==
    IF ok
    THEN [call EXCEPT !.attempts = @ + 1, !.pc = "returned"]
    ELSE IF call.attempt + 1 > cfg.max_retry_count
    THEN [call EXCEPT !.attempts = @ + 1, !.attempt = @ + 1, !.pc = "raised"]
    ELSE [call EXCEPT !.attempts = @ + 1, !.attempt = @ + 1,
                      !.delays = Append(@, backoff_delay(cfg, call.attempt + 1))]

-----------------------------------------------------------------------------
(* Spec: the client's operations, callbacks and worker *)

\* an agent instance hosted by another process
RemoteInstance(ctx) == Instance("AGT0_R", "n2", "R", ctx)

\* the instances of the agents this callback currently tracks
HostedInstances ==
    UNION {{agents[c][i].inst : i \in DOMAIN agents[c]} : c \in DOMAIN agents}

\* agent lists of inbound SimTaskInitRequests
InitAgentLists == {<<"A">>, <<"A", "B">>, <<"X">>}

\* command_id of the next inbound message
NextCommandId == "m" \o ToString(msgCount + 1)

\* decoded inbound requests of one type
Requests(type) ==
    {Command(type, NextCommandId, ctx, NoAgent, None, <<>>) : ctx \in CtxIds}

InitRequests ==
    {Command(SIMCMD_TASK_INIT_REQUEST, NextCommandId, ctx, NoAgent, None, codes) :
        ctx \in CtxIds, codes \in InitAgentLists}

\* decoded inbound responses and reports of one type: echoes of hosted agents
\* and commands of a remote agent
Reports(type) ==
    {Command(type, NextCommandId, src.biz_scene_instance_id, src, "SUCCEED", <<>>) :
        src \in HostedInstances \cup {RemoteInstance(ctx) : ctx \in CtxIds}}

InboundCommands ==
    InitRequests
    \cup UNION {Requests(type) : type \in SimCoordinationRequest \ {SIMCMD_TASK_INIT_REQUEST}}
    \cup UNION {Reports(type) : type \in SimCoordinationResponse \cup ReportTypes}

\* the status of the TaskState of a context, "NONE" when there is none
TaskStatusOf(s, context) ==
    IF context \in DOMAIN s.task_states THEN s.task_states[context].status ELSE "NONE"

\* SimCoordinationClient.start, the broker accepting the connection:
\* _on_connect subscribes, then running is set and the QueueThread started
Start ==
    /\ ~running
    /\ running' = TRUE
    /\ worker' = worker + 1
    /\ handled' = NoHandled
    /\ published' = NoPublication
    /\ resolved' = NoResolution
    /\ UNCHANGED <<sm, lastOp, agents, queue, msgCount, agentCount, config, sends, threads, connected, attempted, mqtt_client>>

\* payloads that cannot be decoded: invalid UTF-8, invalid JSON, an unknown
\* and a missing command_type, a tick request without command_id and a tick
\* response without source_agent_instance
UndecodablePayloads ==
    {Payload(FALSE, FALSE, NoCommand),
     Payload(TRUE, FALSE, NoCommand),
     Payload(TRUE, TRUE, Command("unknown_command", NextCommandId, "c1", NoAgent, None, <<>>)),
     Payload(TRUE, TRUE, Command(None, NextCommandId, "c1", NoAgent, None, <<>>)),
     Payload(TRUE, TRUE, Command(SIMCMD_TICK_CMD_REQUEST, None, "c1", NoAgent, None, <<>>)),
     Payload(TRUE, TRUE, Command(SIMCMD_TICK_CMD_RESPONSE, NextCommandId, "c1", NoAgent,
                                 "SUCCEED", <<>>))}

\* SimCoordinationClient._on_message up to the handler call: the payload of
\* the command is decoded, passes the filter and _handle_incoming_message
\* finds its handler; the callback method then returns or raises
DispatchWith(command, handler, raises, publication) ==
    LET outcome == on_message(sm, model_dump_json(command), raises)
    IN  /\ running
        /\ msgCount < MaxMsgs
        /\ outcome \notin {"decode_error", "filtered", "no_handler"}
        /\ msgCount' = msgCount + 1
        /\ handled' = [cmd |-> command, handler |-> handler,
                       active |-> has_active_context(sm, command.context),
                       status |-> TaskStatusOf(sm, command.context),
                       raised |-> raises, outcome |-> outcome]
        /\ published' = publication
        /\ resolved' = NoResolution
        /\ UNCHANGED <<lastOp, worker, running, config, sends, threads, connected,
                       attempted, mqtt_client>>

\* a dispatch whose handler publishes nothing itself
Dispatch(command, handler, raises) ==
    DispatchWith(command, handler, raises, NoPublication)

\* a dispatch whose callback method returns
OnMessage(command, handler) == Dispatch(command, handler, FALSE)

\* _on_message returning at the filter (or finding no handler)
MessageFilteredOut ==
    /\ running
    /\ msgCount < MaxMsgs
    /\ {command \in InboundCommands :
            on_message(sm, model_dump_json(command), FALSE) \in {"filtered", "no_handler"}}
          # {}
    /\ msgCount' = msgCount + 1
    /\ handled' = NoHandled
    /\ published' = NoPublication
    /\ resolved' = NoResolution
    /\ UNCHANGED <<sm, lastOp, agents, queue, worker, running, agentCount,
                   config, sends, threads, connected, attempted, mqtt_client>>

\* _on_message for a payload that cannot be decoded: the exception is logged
\* in _on_message and the callback returns
OnUndecodableMessage ==
    /\ running
    /\ msgCount < MaxMsgs
    /\ {payload \in UndecodablePayloads : on_message(sm, payload, FALSE) = "decode_error"}
          # {}
    /\ msgCount' = msgCount + 1
    /\ handled' = [NoHandled EXCEPT !.outcome = "decode_error"]
    /\ published' = NoPublication
    /\ resolved' = NoResolution
    /\ UNCHANGED <<sm, lastOp, agents, queue, worker, running, agentCount,
                   config, sends, threads, connected, attempted, mqtt_client>>

\* _handle_task_init -> MultiAgentCallback.on_sim_task_init, for one of the
\* given requests
SimTaskInit(requests) ==
    \E request \in requests :
      \E outcomes \in [1..Len(request.agent_list) -> InitOutcomes] :
        LET acc == InitAgents(NoAgentsYet(sm, agentCount),
                              request.agent_list, outcomes, request)
            response ==
                SimTaskInitResponse(
                    "RESP_" \o request.context \o "_" \o ToString(msgCount + 1),
                    request.context, acc.created_agents[1], "SUCCEED",
                    acc.created_agents)
        IN  /\ OnMessage(request, "on_sim_task_init")
            /\ acc.n <= MaxAgents
            /\ sm' = acc.s
            /\ agentCount' = acc.n
            /\ agents' = IF acc.context_agents # <<>>
                         THEN Put(agents, request.context, acc.context_agents)
                         ELSE agents
            /\ queue' = IF acc.created_agents # <<>>
                        THEN Append(queue, Entry(response, "on_sim_task_init"))
                        ELSE queue
            /\ Len(queue') <= MaxQueue

OnSimTaskInit == SimTaskInit(InitRequests)

\* agent lists that name the same agent code twice
RepeatedAgentLists == {<<"A", "A">>}

\* the SimTaskInitRequests of TaskInitSpec: those of Spec and those with a
\* repeated agent code
TaskInitRequests ==
    InitRequests
    \cup {Command(SIMCMD_TASK_INIT_REQUEST, NextCommandId, ctx, NoAgent, None, codes) :
            ctx \in CtxIds, codes \in RepeatedAgentLists}

OnAnySimTaskInit == SimTaskInit(TaskInitRequests)

\* _handle_tick -> MultiAgentCallback.on_tick: on_tick of every agent of the
\* context is called, whatever its status or drive mode; a returned response
\* is enqueued by send_response
OnTick ==
    \E request \in Requests(SIMCMD_TICK_CMD_REQUEST) :
      LET context_agents == AgentsOf(request.context)
      IN  \E outcomes \in [1..Len(context_agents) -> TickOutcomes] :
            LET results == [i \in 1..Len(context_agents) |->
                               on_tick(context_agents[i], request, outcomes[i])]
            IN  /\ DispatchWith(request, "on_tick", FALSE, DirectPublication(results))
                /\ queue' = queue \o Forwarded(results, "on_tick")
                /\ Len(queue') <= MaxQueue
                /\ UNCHANGED <<sm, agents, agentCount>>

\* _handle_task_terminate -> MultiAgentCallback.on_task_terminate: every agent
\* of the context terminates, then its response is enqueued; the context's
\* agents are dropped at the end
OnTaskTerminate ==
    \E request \in Requests(SIMCMD_TASK_TERMINATE_REQUEST) :
      LET context_agents == AgentsOf(request.context)
      IN  /\ OnMessage(request, "on_task_terminate")
          /\ sm' = TerminateAgents(sm, context_agents, request)
          /\ queue' = queue \o
                  [i \in 1..Len(context_agents) |->
                      Entry(on_terminate(sm, context_agents[i], request).response,
                            "on_terminate")]
          /\ Len(queue') <= MaxQueue
          /\ agents' = IF context_agents # <<>>
                       THEN Del(agents, request.context)
                       ELSE agents
          /\ UNCHANGED agentCount

\* _handle_time_series_data_update -> MultiAgentCallback.on_time_series_data_update
OnTimeSeriesDataUpdate ==
    \E request \in Requests(SIMCMD_TIME_SERIES_DATA_UPDATE_REQUEST) :
      LET context_agents == AgentsOf(request.context)
      IN  \E outcomes \in [1..Len(context_agents) -> UpdateOutcomes] :
            LET results == [i \in 1..Len(context_agents) |->
                               on_time_series_data_update(context_agents[i], request,
                                                          outcomes[i])]
            IN  /\ OnMessage(request, "on_time_series_data_update")
                /\ queue' = queue \o Forwarded(results, "on_time_series_data_update")
                /\ Len(queue') <= MaxQueue
                /\ UNCHANGED <<sm, agents, agentCount>>

\* _handle_time_series_calculation -> the callback's default, which only logs
OnTimeSeriesCalculation ==
    \E request \in Requests(SIMCMD_TIME_SERIES_CALCULATION_REQUEST) :
        /\ OnMessage(request, "on_time_series_calculation")
        /\ UNCHANGED <<sm, agents, queue, agentCount>>

\* _handle_task_init_response -> on_agent_instance_sibling_created (logs)
OnTaskInitResponse ==
    \E response \in Reports(SIMCMD_TASK_INIT_RESPONSE) :
        /\ OnMessage(response, "on_agent_instance_sibling_created")
        /\ UNCHANGED <<sm, agents, queue, agentCount>>

\* _handle_agent_status_report -> on_agent_instance_sibling_status_updated (logs)
OnAgentStatusReport ==
    \E report \in Reports(SIMCMD_AGENT_INSTANCE_STATUS_REPORT) :
        /\ OnMessage(report, "on_agent_instance_sibling_status_updated")
        /\ UNCHANGED <<sm, agents, queue, agentCount>>

\* the callback methods an application overrides, with the commands that
\* reach them: the sibling callbacks are called for a remote source only
CallbackCalls ==
    {<<request, "on_time_series_calculation">> :
        request \in Requests(SIMCMD_TIME_SERIES_CALCULATION_REQUEST)}
    \cup {<<response, "on_agent_instance_sibling_created">> :
        response \in {r \in Reports(SIMCMD_TASK_INIT_RESPONSE) :
                        is_remote_agent(sm, r.source_agent_instance)}}
    \cup {<<report, "on_agent_instance_sibling_status_updated">> :
        report \in {r \in Reports(SIMCMD_AGENT_INSTANCE_STATUS_REPORT) :
                        is_remote_agent(sm, r.source_agent_instance)}}

\* a handler whose callback method raises: _handle_incoming_message logs the
\* exception and returns
OnHandlerRaises ==
    \E call \in CallbackCalls :
        /\ Dispatch(call[1], call[2], TRUE)
        /\ UNCHANGED <<sm, agents, queue, agentCount>>

\* commands the application sends itself through send_command: a request
\* and a report of an agent that is not local
DirectCommands ==
    {Command(SIMCMD_TICK_CMD_REQUEST, "api", "c1", NoAgent, None, <<>>),
     Command(SIMCMD_AGENT_INSTANCE_STATUS_REPORT, "api", "c1", RemoteInstance("c1"),
             "SUCCEED", <<>>)}

\* commands the application submits itself through enqueue
ApiCommands ==
    {Command(SIMCMD_TICK_CMD_REQUEST, "api", "c1", NoAgent, None, <<>>)}
    \cup
    {Command(type, "api", src.biz_scene_instance_id, src, "SUCCEED", <<>>) :
        type \in {SIMCMD_AGENT_INSTANCE_STATUS_REPORT, SIMCMD_IDENTIFIED_PARAMS_REPORT},
        src \in HostedInstances}

\* SimCoordinationClient.enqueue called by the application
Enqueue ==
    \E command \in ApiCommands :
        /\ Len(queue) < MaxQueue
        /\ Cardinality({i \in DOMAIN queue : queue[i].origin = "api"}) < MaxApiQueued
        /\ queue' = Append(queue, Entry(command, "api"))
        /\ handled' = NoHandled
        /\ published' = NoPublication
        /\ resolved' = NoResolution
        /\ UNCHANGED <<sm, lastOp, agents, worker, running, msgCount, agentCount,
                       config, sends, threads, connected, attempted, mqtt_client>>

\* SimCoordinationClient.send_command called by the application
SendCommand ==
    \E command \in DirectCommands, failures \in FailureCounts :
        /\ published' = IF send_with_retry(0, failures) = "sent"
                        THEN [cmd |-> command, by |-> "send_command", topic |-> topic]
                        ELSE NoPublication
        /\ handled' = NoHandled
        /\ resolved' = NoResolution
        /\ UNCHANGED <<sm, lastOp, agents, queue, worker, running, msgCount,
                       agentCount, config, sends, threads, connected, attempted, mqtt_client>>

\* mutant: the loop does not catch the exception of _send_with_retry, which
\* ends the worker thread
QueueLoop_no_catch ==
    /\ running
    /\ worker > 0
    /\ queue # <<>>
    /\ \E failures \in FailureCounts :
         LET entry == Head(queue)
             outcome == IF should_send(sm, entry.cmd)
                        THEN send_with_retry(0, failures)
                        ELSE "skipped"
         IN  /\ queue' = Tail(queue)
             /\ resolved' = [entry |-> entry,
                             local |-> is_local_agent(sm, entry.cmd.source_agent_instance),
                             outcome |-> outcome]
             /\ published' = IF outcome = "sent"
                             THEN [cmd |-> entry.cmd, by |-> "worker", topic |-> topic]
                             ELSE NoPublication
             /\ worker' = IF outcome = "failed" THEN worker - 1 ELSE worker
    /\ handled' = NoHandled
    /\ UNCHANGED <<sm, lastOp, agents, running, msgCount, agentCount,
                   config, sends, threads, connected, attempted, mqtt_client>>

\* one iteration of SimCoordinationClient._queue_loop that gets a command
QueueLoop ==
    /\ running
    /\ worker > 0
    /\ queue # <<>>
    /\ \E failures \in FailureCounts :
         LET entry == Head(queue)
             outcome == IF should_send(sm, entry.cmd)
                        THEN send_with_retry(0, failures)
                        ELSE "skipped"
         IN  /\ queue' = Tail(queue)
             /\ resolved' = [entry |-> entry,
                             local |-> is_local_agent(sm, entry.cmd.source_agent_instance),
                             outcome |-> outcome]
             /\ published' = IF outcome = "sent"
                             THEN [cmd |-> entry.cmd, by |-> "worker", topic |-> topic]
                             ELSE NoPublication
    /\ handled' = NoHandled
    /\ UNCHANGED <<sm, lastOp, agents, worker, running, msgCount, agentCount,
                   config, sends, threads, connected, attempted, mqtt_client>>

Init ==
    /\ sm = NewStateManager
    /\ lastOp = NoOp
    /\ ClientInit

Next ==
    \/ Start
    \/ MessageFilteredOut
    \/ OnSimTaskInit
    \/ OnTick
    \/ OnTaskTerminate
    \/ OnTimeSeriesDataUpdate
    \/ OnTimeSeriesCalculation
    \/ OnTaskInitResponse
    \/ OnAgentStatusReport
    \/ OnUndecodableMessage
    \/ OnHandlerRaises
    \/ Enqueue
    \/ SendCommand
    \/ QueueLoop

Spec == Init /\ [][Next]_vars

\* TaskInitSpec: the client handling task-init and task-terminate requests
\* only, with its worker
TaskInitNext ==
    \/ Start
    \/ OnAnySimTaskInit
    \/ OnTaskTerminate
    \/ QueueLoop

TaskInitSpec == Init /\ [][TaskInitNext]_vars

-----------------------------------------------------------------------------
(* RetrySpec: send_command on clients constructed with any retry arguments, *)
(* the call of _send_with_retry taken one publish attempt at a time.        *)

\* largest max_retry_count given to the constructor
MaxRetryArg == 5

\* base_retry_delay_ms values given to the constructor
BaseDelayArgs == {1, 500, 1000}

\* the thread of the application that calls send_command
CallerThread == "caller"

\* a thread is inside _send_with_retry
Sending(t) == t \in DOMAIN sends /\ sends[t].pc = "publish"

RetryInit ==
    /\ sm = NewStateManager
    /\ lastOp = NoOp
    /\ config \in {Config(retries, delay_ms) :
                        retries \in 0..MaxRetryArg, delay_ms \in BaseDelayArgs}
    /\ sends = EmptyMap
    /\ threads = NoThreads
    /\ connected = FALSE
    /\ mqtt_client = NoTransport
    /\ attempted = <<>>
    /\ agents = EmptyMap
    /\ queue = <<>>
    /\ worker = 0
    /\ running = FALSE
    /\ handled = NoHandled
    /\ published = NoPublication
    /\ resolved = NoResolution
    /\ msgCount = 0
    /\ agentCount = 0

\* send_command(command) enters _send_with_retry
SendCommandCall ==
    \E command \in DirectCommands :
        /\ ~Sending(CallerThread)
        /\ sends' = Put(sends, CallerThread, Call(command))
        /\ published' = NoPublication
        /\ UNCHANGED attempted
        /\ lastOp' = NoOp
        /\ UNCHANGED <<sm, agents, queue, worker, running, handled,
                       resolved, msgCount, agentCount, config, threads,
                       connected, mqtt_client>>

\* a publish attempt succeeds: publish and wait_for_publish return
PublishSucceeds ==
    \E t \in DOMAIN sends :
        /\ Sending(t)
        /\ sends' = Put(sends, t, publish_attempt(config, sends[t], TRUE))
        /\ attempted' = IF t = CallerThread
                        THEN attempted
                        ELSE Append(attempted, sends[t].command.command_id)
        /\ published' = [cmd |-> sends[t].command,
                         by |-> IF t = CallerThread THEN "send_command" ELSE "worker",
                         topic |-> topic]
        /\ lastOp' = NoOp
        /\ UNCHANGED <<sm, agents, queue, worker, running, handled,
                       resolved, msgCount, agentCount, config, threads,
                       connected, mqtt_client>>

\* a publish attempt raises
PublishFails ==
    \E t \in DOMAIN sends :
        /\ Sending(t)
        /\ sends' = Put(sends, t, publish_attempt(config, sends[t], FALSE))
        /\ attempted' = IF t = CallerThread
                        THEN attempted
                        ELSE Append(attempted, sends[t].command.command_id)
        /\ published' = NoPublication
        /\ lastOp' = NoOp
        /\ UNCHANGED <<sm, agents, queue, worker, running, handled,
                       resolved, msgCount, agentCount, config, threads,
                       connected, mqtt_client>>

RetryNext ==
    \/ SendCommandCall
    \/ PublishSucceeds
    \/ PublishFails

RetrySpec == RetryInit /\ [][RetryNext]_vars

-----------------------------------------------------------------------------
(* LifecycleSpec: start(), stop(), enqueue() and the worker threads, each   *)
(* taken one step of its code at a time.                                    *)

\* largest number of worker threads started
MaxStarts == 2

\* largest number of commands enqueued
MaxEnqueued == 2

\* self.queue_thread.join(timeout=5)
join_timeout_ms == 5000

\* max_retry_count values given to the constructor
LifecycleRetryArgs == {0, 3, max_retry_count}

\* Thread(target=self._queue_loop): the n-th thread started
WorkerThread(n) == "w" \o ToString(n)

\* Thread.is_alive()
Alive(t) == t \in DOMAIN threads.pcs

\* the thread is in a backoff sleep longer than the join timeout of stop()
LongSleep(t) ==
    /\ Sending(t)
    /\ sends[t].delays # <<>>
    /\ sends[t].delays[Len(sends[t].delays)] > join_timeout_ms

\* the agent a1 this node hosts in context c1
LocalInstance == Instance("a1", "n1", "A", "c1")

\* the state_manager argument of the constructor: it has context c1
\* initialised with the local agent a1
HostingManager ==
    init_task(add_local_agent(set_node_id(NewStateManager, "n1"), LocalInstance),
              "c1", <<LocalInstance>>)

\* the commands the agent code enqueues: a tick response of the local agent
\* and a request, which the worker never sends
EnqueuedCommands ==
    {Command(SIMCMD_TICK_CMD_RESPONSE, NextCommandId, "c1", LocalInstance, "SUCCEED", <<>>),
     Command(SIMCMD_TICK_CMD_REQUEST, NextCommandId, "c1", NoAgent, None, <<>>)}

\* the position in enqueue order of the command with this id
EnqueueIndex(id) == CHOOSE n \in 1..msgCount : id = "m" \o ToString(n)

LifecycleInit ==
    /\ sm = HostingManager
    /\ lastOp = NoOp
    /\ config \in {Config(retries, base_retry_delay_ms) : retries \in LifecycleRetryArgs}
    /\ sends = EmptyMap
    /\ threads = NoThreads
    /\ connected = FALSE
    /\ mqtt_client = NoTransport
    /\ attempted = <<>>
    /\ agents = EmptyMap
    /\ queue = <<>>
    /\ worker = 0
    /\ running = FALSE
    /\ handled = NoHandled
    /\ published = NoPublication
    /\ resolved = NoResolution
    /\ msgCount = 0
    /\ agentCount = 0

\* how the broker treats a connect(): it acknowledges within the 10 s that
\* start() waits, it accepts the connection but has not acknowledged by
\* then, or the connection is refused and connect() raises
ConnectOutcomes == {"acked", "pending", "refused"}

\* SimCoordinationClient._on_connect(rc = 0): subscribe, connected.set()
on_connect(transport) == [transport EXCEPT !.link = "open", !.subscribed = TRUE]

\* SimCoordinationClient.start: returns at once on a running client; else
\* connect() and loop_start(), waits up to 10 s for connected to be set,
\* raises if it is not set, otherwise sets running and starts a new
\* QueueThread
StartClient ==
    \E outcome \in ConnectOutcomes :
        LET connecting == [loop |-> TRUE, link |-> "connecting", subscribed |-> FALSE]
        IN
        /\ threads.api = "ready"
        /\ IF running
           THEN /\ lastOp' = Op("start_ignored", None, NoAgent, {}, NoCommand, TRUE)
                /\ UNCHANGED <<running, worker, threads, connected, mqtt_client>>
           ELSE IF outcome = "refused"
           THEN /\ lastOp' = Op("start", None, NoAgent, {}, NoCommand, FALSE)
                /\ UNCHANGED <<running, worker, threads, connected, mqtt_client>>
           ELSE IF connected \/ outcome = "acked"
           THEN /\ threads.started < MaxStarts
                /\ mqtt_client' = IF outcome = "acked"
                                  THEN on_connect(connecting) ELSE connecting
                /\ connected' = TRUE
                /\ running' = TRUE
                /\ worker' = worker + 1
                /\ threads' = [threads EXCEPT
                                 !.queue_thread = WorkerThread(threads.started + 1),
                                 !.started = @ + 1,
                                 !.pcs = Put(@, WorkerThread(threads.started + 1), "loop")]
                /\ lastOp' = Op("start", None, NoAgent, {}, NoCommand, TRUE)
           ELSE /\ mqtt_client' = connecting
                /\ lastOp' = Op("start", None, NoAgent, {}, NoCommand, FALSE)
                /\ UNCHANGED <<running, worker, threads, connected>>
        /\ published' = NoPublication
        /\ resolved' = NoResolution
        /\ UNCHANGED <<sm, agents, queue, handled, msgCount, agentCount, config,
                       sends, attempted>>

\* SimCoordinationClient.stop up to the join: returns at once on a client
\* that is not running, else clears running and joins queue_thread
StopBegin ==
    /\ threads.api = "ready"
    /\ IF running
       THEN /\ running' = FALSE
            /\ threads' = [threads EXCEPT !.api = "join"]
            /\ lastOp' = NoOp
       ELSE /\ lastOp' = Op("stop_ignored", None, NoAgent, {}, NoCommand, TRUE)
            /\ UNCHANGED <<running, threads>>
    /\ published' = NoPublication
    /\ resolved' = NoResolution
    /\ UNCHANGED <<sm, agents, queue, worker, handled, msgCount, agentCount,
                   config, sends, connected, attempted, mqtt_client>>

\* SimCoordinationClient.stop from the join on: queue_thread has exited, or
\* the 5 s of the join expire while it sleeps longer; then loop_stop() and
\* disconnect(), during which the transport, its loop thread stopped, may
\* or may not call _on_disconnect for an open connection
StopReturn ==
    \E notified \in BOOLEAN :
        /\ threads.api = "join"
        /\ ~Alive(threads.queue_thread) \/ LongSleep(threads.queue_thread)
        /\ notified => mqtt_client.link = "open"
        /\ threads' = [threads EXCEPT !.api = "ready"]
        /\ mqtt_client' = NoTransport
        /\ connected' = (connected /\ ~notified)
        /\ lastOp' = Op("stop", None, NoAgent, {}, NoCommand, TRUE)
        /\ published' = NoPublication
        /\ resolved' = NoResolution
        /\ UNCHANGED <<sm, agents, queue, worker, running, handled, msgCount,
                       agentCount, config, sends, attempted>>

\* the loop thread of the transport receives the acknowledgement of a
\* pending connection and calls _on_connect(rc = 0)
OnConnect ==
    /\ mqtt_client.loop
    /\ mqtt_client.link = "connecting"
    /\ mqtt_client' = on_connect(mqtt_client)
    /\ connected' = TRUE
    /\ lastOp' = NoOp
    /\ published' = NoPublication
    /\ resolved' = NoResolution
    /\ UNCHANGED <<sm, agents, queue, worker, running, handled, msgCount,
                   agentCount, config, sends, threads, attempted>>

\* the broker drops the connection: the loop thread of the transport calls
\* _on_disconnect and goes on to reconnect
OnDisconnect ==
    /\ mqtt_client.loop
    /\ mqtt_client.link = "open"
    /\ mqtt_client' = [mqtt_client EXCEPT !.link = "connecting", !.subscribed = FALSE]
    /\ connected' = FALSE
    /\ lastOp' = NoOp
    /\ published' = NoPublication
    /\ resolved' = NoResolution
    /\ UNCHANGED <<sm, agents, queue, worker, running, handled, msgCount,
                   agentCount, config, sends, threads, attempted>>

\* SimCoordinationClient.enqueue called by agent code
EnqueueCommand ==
    \E command \in EnqueuedCommands :
        /\ msgCount < MaxEnqueued
        /\ queue' = Append(queue, Entry(command, "api"))
        /\ msgCount' = msgCount + 1
        /\ published' = NoPublication
        /\ resolved' = NoResolution
        /\ lastOp' = NoOp
        /\ UNCHANGED <<sm, agents, worker, running, handled, agentCount,
                       config, sends, threads, connected, attempted, mqtt_client>>

\* _queue_loop at `while self.running.is_set()`: the thread goes on to get()
\* or leaves the loop and ends
WorkerLoop ==
    \E t \in DOMAIN threads.pcs :
        /\ threads.pcs[t] = "loop"
        /\ ~Sending(t)
        /\ IF running
           THEN /\ threads' = [threads EXCEPT !.pcs = Put(@, t, "get")]
                /\ UNCHANGED worker
           ELSE /\ threads' = [threads EXCEPT !.pcs = Del(@, t)]
                /\ worker' = worker - 1
        /\ published' = NoPublication
        /\ resolved' = NoResolution
        /\ lastOp' = NoOp
        /\ UNCHANGED <<sm, agents, queue, running, handled, msgCount,
                       agentCount, config, sends, connected, attempted, mqtt_client>>

\* _queue_loop at out_message_queue.get(timeout=1): Empty after the timeout,
\* or the head of the queue is taken and either skipped or handed to
\* _send_with_retry
WorkerGet ==
    \E t \in DOMAIN threads.pcs :
        /\ threads.pcs[t] = "get"
        /\ threads' = [threads EXCEPT !.pcs = Put(@, t, "loop")]
        /\ IF queue = <<>>
           THEN /\ resolved' = NoResolution
                /\ UNCHANGED <<queue, sends>>
           ELSE LET entry == Head(queue)
                IN  /\ queue' = Tail(queue)
                    /\ IF should_send(sm, entry.cmd)
                       THEN /\ sends' = Put(sends, t, Call(entry.cmd))
                            /\ resolved' = NoResolution
                       ELSE /\ resolved' = [entry |-> entry,
                                            local |-> is_local_agent(sm,
                                                entry.cmd.source_agent_instance),
                                            outcome |-> "skipped"]
                            /\ UNCHANGED sends
        /\ published' = NoPublication
        /\ lastOp' = NoOp
        /\ UNCHANGED <<sm, agents, worker, running, handled, msgCount,
                       agentCount, config, connected, attempted, mqtt_client>>

LifecycleNext ==
    \/ StartClient
    \/ StopBegin
    \/ StopReturn
    \/ OnConnect
    \/ OnDisconnect
    \/ EnqueueCommand
    \/ WorkerLoop
    \/ WorkerGet
    \/ PublishSucceeds
    \/ PublishFails

LifecycleSpec == LifecycleInit /\ [][LifecycleNext]_vars

-----------------------------------------------------------------------------
(* CalculationSpec: the methods of an event-driven ModelCalculationAgent,   *)
(* called with tick and calculation requests                                *)

\* longest object_time_series_list a calculation returns
MaxSeries == 2

\* what on_model_calculation does: it raises, or returns a list of
\* ObjectTimeSeries
CalculationOutcomes ==
    {[raises |-> TRUE, series |-> <<>>]}
    \cup {[raises |-> FALSE, series |-> [i \in 1..n |-> "ts" \o ToString(i)]] :
            n \in 0..MaxSeries}

\* the event-driven agent this node hosts in context c1
ModelAgent == Agent(LocalInstance, "ACTIVE")

\* ModelCalculationAgent.on_tick: a FAILED TickCmdResponse is returned; the
\* agent is not changed and on_model_calculation is not called
ModelCalculationAgent_on_tick(agent, request) ==
    [response |-> Response(SIMCMD_TICK_CMD_RESPONSE, request, agent, "FAILED"),
     agent |-> agent, calculated |-> FALSE]

\* TimeSeriesCalculationResponse(context, command_id, command_status,
\* source_agent_instance, object_time_series_list)
TimeSeriesCalculationResponse(request, agent, status, series) ==
    [Response(SIMCMD_TIME_SERIES_CALCULATION_RESPONSE, request, agent, status)
        EXCEPT !.object_time_series_list = series]

\* mutant: the response is sent again after an exception
ModelCalculationAgent_on_time_series_calculation_twice(agent, request, outcome) ==
    IF outcome.raises
    THEN [sent |-> <<TimeSeriesCalculationResponse(request, agent, "FAILED", <<>>),
                     TimeSeriesCalculationResponse(request, agent, "FAILED", <<>>)>>,
          agent |-> agent, calculated |-> TRUE]
    ELSE [sent |-> <<TimeSeriesCalculationResponse(request, agent, "SUCCEED",
                                                   outcome.series)>>,
          agent |-> agent, calculated |-> TRUE]

\* ModelCalculationAgent.on_time_series_calculation: on_model_calculation is
\* called; the responses passed to send_response, in order
ModelCalculationAgent_on_time_series_calculation(agent, request, outcome) ==
    IF outcome.raises
    THEN [sent |-> <<TimeSeriesCalculationResponse(request, agent, "FAILED", <<>>)>>,
          agent |-> agent, calculated |-> TRUE]
    ELSE [sent |-> <<TimeSeriesCalculationResponse(request, agent, "SUCCEED",
                                                   outcome.series)>>,
          agent |-> agent, calculated |-> TRUE]

\* the hosted agent, as the last call left it
HostedModelAgent == agents[LocalInstance.biz_scene_instance_id][1]

CalculationInit ==
    /\ sm = HostingManager
    /\ lastOp = NoOp
    /\ config = Config(max_retry_count, base_retry_delay_ms)
    /\ sends = EmptyMap
    /\ threads = NoThreads
    /\ connected = FALSE
    /\ mqtt_client = NoTransport
    /\ attempted = <<>>
    /\ agents = [c \in {LocalInstance.biz_scene_instance_id} |-> <<ModelAgent>>]
    /\ queue = <<>>
    /\ worker = 0
    /\ running = FALSE
    /\ handled = NoHandled
    /\ published = NoPublication
    /\ resolved = NoResolution
    /\ msgCount = 0
    /\ agentCount = 1

\* agent.on_tick(request) of the ModelCalculationAgent: lastOp records the
\* response returned and whether the model calculation was run
CallOnTick ==
    \E request \in Requests(SIMCMD_TICK_CMD_REQUEST) :
        LET r == ModelCalculationAgent_on_tick(HostedModelAgent, request)
        IN  /\ msgCount < MaxMsgs
            /\ msgCount' = msgCount + 1
            /\ handled' = [NoHandled EXCEPT !.cmd = request, !.handler = "on_tick"]
            /\ lastOp' = Op("on_tick", request.context, r.agent.inst, {}, r.response,
                            r.calculated)
            /\ agents' = [agents EXCEPT ![LocalInstance.biz_scene_instance_id] = <<r.agent>>]
            /\ UNCHANGED <<sm, queue, worker, running, published, resolved,
                           agentCount, config, sends, threads, connected, attempted,
                           mqtt_client>>

\* agent.on_time_series_calculation(request): lastOp records how the
\* calculation went, the queue receives what send_response was given
CallOnTimeSeriesCalculation ==
    \E request \in Requests(SIMCMD_TIME_SERIES_CALCULATION_REQUEST),
       outcome \in CalculationOutcomes :
        LET r == ModelCalculationAgent_on_time_series_calculation(HostedModelAgent,
                                                                  request, outcome)
        IN  /\ msgCount < MaxMsgs
            /\ msgCount' = msgCount + 1
            /\ handled' = [NoHandled EXCEPT !.cmd = request,
                                            !.handler = "on_time_series_calculation",
                                            !.raised = outcome.raises]
            /\ lastOp' = Op("on_time_series_calculation", request.context, r.agent.inst,
                            {}, NoCommand, r.calculated)
            /\ queue' = queue \o
                    [i \in 1..Len(r.sent) |-> Entry(r.sent[i], "on_time_series_calculation")]
            /\ agents' = [agents EXCEPT ![LocalInstance.biz_scene_instance_id] = <<r.agent>>]
            /\ UNCHANGED <<sm, worker, running, published, resolved,
                           agentCount, config, sends, threads, connected, attempted,
                           mqtt_client>>

CalculationNext ==
    \/ CallOnTick
    \/ CallOnTimeSeriesCalculation

CalculationSpec == CalculationInit /\ [][CalculationNext]_vars

-----------------------------------------------------------------------------
(* ProtocolSpec: a command object is encoded by model_dump_json(by_alias=True), *)
(* published, and decoded by json.loads and SimCommandEnvelope(command=data)    *)

\* A Python value: its class, the text of a scalar, the fields of a model
\* instance or dict, the items of a list.  The result of json.loads has the
\* same shape, with the classes dict, list, str, int, float, bool, NoneType.
PyValue(cls, text, fields, items) ==
    [cls |-> cls, text |-> text, fields |-> fields, items |-> items]

Scalar(cls, text) == PyValue(cls, text, EmptyMap, <<>>)
PyNone == Scalar("NoneType", None)
Str(s) == Scalar("str", s)
Bool(b) == Scalar("bool", IF b THEN "True" ELSE "False")
List(items) == PyValue("list", "", EmptyMap, items)
Model(cls, fields) == PyValue(cls, "", fields, <<>>)

\* class CommandStatus(str, Enum), AgentBizStatus, AgentDriveMode
EnumMembers(type) ==
    CASE type = "CommandStatus" -> {"INIT", "PROCESSING", "SUCCEED", "FAILED"}
      [] type = "AgentBizStatus" -> {"INIT", "IDLE", "ACTIVE", "FAILED"}
      [] type = "AgentDriveMode" -> {"SIM_TICK_DRIVEN", "EVENT_DRIVEN", "PROACTIVE"}
      [] OTHER -> {}

EnumTypes == {"CommandStatus", "AgentBizStatus", "AgentDriveMode"}

\* a field declaration `name: type`, `name: Optional[type]` or
\* `name: List[type]`; required when the declaration gives no default
Field(name, type, optional, list, required) ==
    [name |-> name, type |-> type, optional |-> optional, list |-> list,
     required |-> required]

\* class HydroCmd, class SimCommand
SimCommandFields ==
    <<Field("command_id", "str", FALSE, FALSE, TRUE),
      Field("command_type", "str", FALSE, FALSE, FALSE),
      Field("context", "SimulationContext", FALSE, FALSE, TRUE),
      Field("broadcast", "bool", FALSE, FALSE, FALSE)>>

\* class SimCoordinationResponse(SimCommand)
SimCoordinationResponseFields ==
    SimCommandFields \o
    <<Field("command_status", "CommandStatus", TRUE, FALSE, FALSE),
      Field("error_code", "str", TRUE, FALSE, FALSE),
      Field("error_message", "str", TRUE, FALSE, FALSE),
      Field("source_agent_instance", "HydroAgentInstance", FALSE, FALSE, TRUE)>>

\* class HydroAgent
HydroAgentFields ==
    <<Field("agent_code", "str", FALSE, FALSE, TRUE),
      Field("agent_type", "str", FALSE, FALSE, TRUE),
      Field("agent_name", "str", TRUE, FALSE, FALSE),
      Field("agent_configuration_url", "str", FALSE, FALSE, TRUE)>>

\* class BaseHydroEvent (the fields a HydroEvent of this model carries)
HydroEventFields ==
    <<Field("hydro_event_type", "str", FALSE, FALSE, TRUE),
      Field("hydro_event_id", "str", TRUE, FALSE, FALSE),
      Field("created_time", "Any", TRUE, FALSE, FALSE)>>

\* the classes derived from HydroBaseModel, by class name, with the
\* command classes under their command_type: the declared fields in order
model_fields(cls) ==
    CASE cls = "SimulationContext" ->
            <<Field("biz_scene_instance_id", "str", FALSE, FALSE, TRUE),
              Field("valid", "bool", FALSE, FALSE, FALSE)>>
      [] cls = "HydroAgent" -> HydroAgentFields
      [] cls = "HydroAgentInstance" ->
            HydroAgentFields \o
            <<Field("agent_id", "str", FALSE, FALSE, TRUE),
              Field("biz_scene_instance_id", "str", FALSE, FALSE, TRUE),
              Field("hydros_cluster_id", "str", FALSE, FALSE, TRUE),
              Field("hydros_node_id", "str", FALSE, FALSE, TRUE),
              Field("context", "SimulationContext", FALSE, FALSE, TRUE),
              Field("agent_biz_status", "AgentBizStatus", FALSE, FALSE, TRUE),
              Field("drive_mode", "AgentDriveMode", FALSE, FALSE, TRUE)>>
      [] cls = "TimeSeriesValue" ->
            <<Field("step", "int", TRUE, FALSE, FALSE),
              Field("time", "Any", TRUE, FALSE, FALSE),
              Field("value", "float", TRUE, FALSE, FALSE)>>
      [] cls = "ObjectTimeSeries" ->
            <<Field("object_id", "int", TRUE, FALSE, FALSE),
              Field("metrics_code", "str", TRUE, FALSE, FALSE),
              Field("time_series", "TimeSeriesValue", FALSE, TRUE, FALSE)>>
      [] cls = "HydroEvent" -> HydroEventFields
      [] cls = "TimeSeriesDataChangedEvent" ->
            HydroEventFields \o
            <<Field("object_time_series", "ObjectTimeSeries", FALSE, TRUE, FALSE)>>
      [] cls = SIMCMD_TASK_INIT_REQUEST ->
            SimCommandFields \o
            <<Field("agent_list", "HydroAgent", FALSE, TRUE, TRUE),
              Field("biz_scene_configuration_url", "str", TRUE, FALSE, FALSE)>>
      [] cls = SIMCMD_TASK_INIT_RESPONSE ->
            SimCoordinationResponseFields \o
            <<Field("created_agent_instances", "HydroAgentInstance", FALSE, TRUE, TRUE),
              Field("managed_top_objects", "dict", FALSE, FALSE, TRUE)>>
      [] cls = SIMCMD_TASK_TERMINATE_REQUEST ->
            SimCommandFields \o <<Field("reason", "str", TRUE, FALSE, FALSE)>>
      [] cls = SIMCMD_TICK_CMD_REQUEST ->
            SimCommandFields \o <<Field("step", "int", FALSE, FALSE, TRUE)>>
      [] cls = SIMCMD_TIME_SERIES_CALCULATION_REQUEST ->
            SimCommandFields \o
            <<Field("target_agent_instance", "HydroAgentInstance", FALSE, FALSE, TRUE),
              Field("hydro_event", "HydroEvent", FALSE, FALSE, TRUE)>>
      [] cls = SIMCMD_TIME_SERIES_CALCULATION_RESPONSE ->
            SimCoordinationResponseFields \o
            <<Field("hydro_event", "HydroEvent", FALSE, FALSE, TRUE),
              Field("object_time_series_list", "ObjectTimeSeries", FALSE, TRUE, TRUE)>>
      [] cls = SIMCMD_TIME_SERIES_DATA_UPDATE_REQUEST ->
            SimCommandFields \o
            <<Field("time_series_data_changed_event", "TimeSeriesDataChangedEvent",
                    FALSE, FALSE, TRUE)>>
      [] cls \in {SIMCMD_TASK_TERMINATE_RESPONSE, SIMCMD_TICK_CMD_RESPONSE,
                  SIMCMD_TIME_SERIES_DATA_UPDATE_RESPONSE} ->
            SimCoordinationResponseFields
      [] cls = SIMCMD_AGENT_INSTANCE_STATUS_REPORT ->
            SimCommandFields \o
            <<Field("source_agent_instance", "HydroAgentInstance", FALSE, FALSE, TRUE),
              Field("created_state", "str", FALSE, FALSE, TRUE),
              Field("init_result", "dict", TRUE, FALSE, FALSE)>>
      [] cls = SIMCMD_IDENTIFIED_PARAMS_REPORT ->
            SimCommandFields \o
            <<Field("source_agent_instance", "HydroAgentInstance", FALSE, FALSE, TRUE),
              Field("recognized_params", "dict", FALSE, TRUE, TRUE)>>
      [] cls = SIMCMD_HYDRO_ALERT_REPORT ->
            SimCommandFields \o
            <<Field("source_agent_instance", "HydroAgentInstance", FALSE, FALSE, TRUE),
              Field("hydro_alert_event", "dict", FALSE, FALSE, TRUE)>>
      [] OTHER -> <<>>

ModelClasses ==
    {"SimulationContext", "HydroAgent", "HydroAgentInstance", "TimeSeriesValue",
     "ObjectTimeSeries", "HydroEvent", "TimeSeriesDataChangedEvent"} \cup CommandUnion

\* the value of a field left out of the constructor call or of the JSON
\* object: its declared default
default(cls, field) ==
    IF field.name = "command_type" THEN Str(cls)
    ELSE IF field.name = "broadcast" THEN Bool(FALSE)
    ELSE IF field.name = "valid" THEN Bool(TRUE)
    ELSE IF field.list THEN List(<<>>)
    ELSE PyNone

\* HydroBaseModel: the key a field is written under and read from
alias(name) == name

\* json.dumps of a scalar: a datetime is written as its ISO 8601 text, an
\* enum member as its value
to_jsonable_scalar(value) ==
    CASE value.cls = "datetime" -> Str(value.text)
      [] value.cls \in EnumTypes -> Str(value.text)
      [] OTHER -> value

\* model_dump(mode="json", by_alias=True): the value written as the declared
\* type says. A model instance is written with the fields of the declared
\* class; a value declared Any or dict is written as its own class says.
RECURSIVE to_jsonable(_, _)
to_jsonable(value, type) ==
    IF value.cls = "list"
    THEN List([i \in DOMAIN value.items |-> to_jsonable(value.items[i], type)])
    ELSE IF value.cls = "dict"
    THEN PyValue("dict", "", [k \in DOMAIN value.fields |->
                                 to_jsonable(value.fields[k], "Any")], <<>>)
    ELSE IF type \in ModelClasses /\ value.cls \in ModelClasses
    THEN LET declared == model_fields(type)
         IN  PyValue("dict", "",
                     [k \in {alias(declared[i].name) : i \in DOMAIN declared} |->
                        LET f == declared[CHOOSE i \in DOMAIN declared :
                                              alias(declared[i].name) = k]
                        IN  to_jsonable(value.fields[f.name], f.type)],
                     <<>>)
    ELSE to_jsonable_scalar(value)

\* command.model_dump_json(by_alias=True) followed by json.loads: the JSON
\* object on the wire
model_dump_json_by_alias(command) == to_jsonable(command, command.cls)

ValidationError == [ok |-> FALSE, value |-> PyNone]
Valid(value) == [ok |-> TRUE, value |-> value]

\* validation of a JSON scalar against a declared scalar type
validate_scalar(data, type) ==
    CASE type = "Any" -> Valid(data)
      [] type \in EnumTypes ->
            IF data.cls = "str" /\ data.text \in EnumMembers(type)
            THEN Valid(Scalar(type, data.text)) ELSE ValidationError
      [] type = "float" ->
            IF data.cls \in {"int", "float"}
            THEN Valid(Scalar("float", data.text)) ELSE ValidationError
      [] OTHER -> IF data.cls = type THEN Valid(data) ELSE ValidationError

\* pydantic validation of parsed JSON against a field declaration: null for
\* an Optional or Any field, a list item by item, a dict for a model class
\* field by field (a missing key takes the default, a missing required key
\* fails, keys that are no field are ignored), a scalar by its type
RECURSIVE validate(_, _)
validate(data, field) ==
    IF data.cls = "NoneType"
    THEN IF field.optional \/ (field.type = "Any" /\ ~field.list)
         THEN Valid(PyNone) ELSE ValidationError
    ELSE IF field.list
    THEN IF data.cls # "list" THEN ValidationError
         ELSE LET item == [field EXCEPT !.list = FALSE, !.optional = FALSE]
                  rs == [i \in DOMAIN data.items |-> validate(data.items[i], item)]
              IN  IF \A i \in DOMAIN rs : rs[i].ok
                  THEN Valid(List([i \in DOMAIN rs |-> rs[i].value]))
                  ELSE ValidationError
    ELSE IF field.type = "dict"
    THEN IF data.cls = "dict" THEN Valid(data) ELSE ValidationError
    ELSE IF field.type \in ModelClasses
    THEN IF data.cls # "dict" THEN ValidationError
         ELSE LET declared == model_fields(field.type)
                  names == {declared[i].name : i \in DOMAIN declared}
                  decl(n) == declared[CHOOSE i \in DOMAIN declared : declared[i].name = n]
                  rs == [n \in names |->
                            IF alias(n) \in DOMAIN data.fields
                            THEN validate(data.fields[alias(n)], decl(n))
                            ELSE IF decl(n).required THEN ValidationError
                            ELSE Valid(default(field.type, decl(n)))]
              IN  IF \A n \in names : rs[n].ok
                  THEN Valid(Model(field.type, [n \in names |-> rs[n].value]))
                  ELSE ValidationError
    ELSE validate_scalar(data, field.type)

\* SimCommandEnvelope(command=data).command: the discriminator command_type
\* selects the class of CommandUnion the JSON object is validated against
SimCommandEnvelope(data) ==
    IF data.cls # "dict" \/ "command_type" \notin DOMAIN data.fields
    THEN ValidationError
    ELSE IF data.fields["command_type"].cls # "str"
            \/ data.fields["command_type"].text \notin CommandUnion
    THEN ValidationError
    ELSE validate(data, Field("command", data.fields["command_type"].text,
                              FALSE, FALSE, TRUE))

\* dict.update: the entries of g added to f
Merge(f, g) ==
    [k \in (DOMAIN f) \cup (DOMAIN g) |-> IF k \in DOMAIN g THEN g[k] ELSE f[k]]

\* SimulationContext(biz_scene_instance_id=c)
SimulationContext(c) ==
    Model("SimulationContext", [biz_scene_instance_id |-> Str(c), valid |-> Bool(TRUE)])

\* HydroAgent(agent_code=code, ...)
HydroAgent(code) ==
    Model("HydroAgent",
          [agent_code |-> Str(code), agent_type |-> Str("TWINS_SIMULATION_AGENT"),
           agent_name |-> PyNone,
           agent_configuration_url |-> Str("http://config.url")])

\* HydroAgentInstance(agent_id=..., ...) of an instance of the model
HydroAgentInstance(inst) ==
    Model("HydroAgentInstance",
          Merge(HydroAgent(inst.agent_code).fields,
                [agent_id |-> Str(inst.agent_id),
                 biz_scene_instance_id |-> Str(inst.biz_scene_instance_id),
                 hydros_cluster_id |-> Str("cluster"),
                 hydros_node_id |-> Str(inst.hydros_node_id),
                 context |-> SimulationContext(inst.biz_scene_instance_id),
                 agent_biz_status |-> Scalar("AgentBizStatus", "ACTIVE"),
                 drive_mode |-> Scalar("AgentDriveMode", "SIM_TICK_DRIVEN")]))

\* values given for TimeSeriesValue.time, declared Optional[Any] "for
\* Date/datetime generic support": nothing, a text, a datetime
TimeValues ==
    {PyNone, Str("2026-01-01T00:00:00"), Scalar("datetime", "2026-01-01T00:00:00")}

\* ObjectTimeSeries(object_id=101, metrics_code=..., time_series=
\*   [TimeSeriesValue(step=1, time=time, value=10.5)])
ObjectTimeSeries(time) ==
    Model("ObjectTimeSeries",
          [object_id |-> Scalar("int", "101"), metrics_code |-> Str("water_level"),
           time_series |-> List(<<Model("TimeSeriesValue",
                                        [step |-> Scalar("int", "1"), time |-> time,
                                         value |-> Scalar("float", "10.5")])>>)])

\* lists of at most MaxSeries ObjectTimeSeries
SeriesLists ==
    {List(s) : s \in SeqsUpTo({ObjectTimeSeries(t) : t \in TimeValues}, MaxSeries)}

\* HydroEvent(hydro_event_type="GENERIC_EVENT")
GenericEvent ==
    Model("HydroEvent", [hydro_event_type |-> Str("GENERIC_EVENT"),
                         hydro_event_id |-> PyNone, created_time |-> PyNone])

\* TimeSeriesDataChangedEvent(object_time_series=series)
TimeSeriesDataChangedEvent(series) ==
    Model("TimeSeriesDataChangedEvent",
          [hydro_event_type |-> Str("HYDRO_EVENT_TIME_SERIES_DATA_UPDATED"),
           hydro_event_id |-> PyNone, created_time |-> PyNone,
           object_time_series |-> series])

\* the events a command is constructed with: a field declared HydroEvent
\* accepts an instance of HydroEvent or of its subclass
HydroEvents == {GenericEvent} \cup {TimeSeriesDataChangedEvent(s) : s \in SeriesLists}

EmptyDict == PyValue("dict", "", EmptyMap, <<>>)

\* a request object: SimCommand's fields and the fields of its class
RequestObject(type, broadcast, own) ==
    Model(type, Merge([command_id |-> Str("m1"), command_type |-> Str(type),
                       context |-> SimulationContext("c1"),
                       broadcast |-> Bool(broadcast)], own))

\* a response object: SimCoordinationResponse's fields and those of its class
ResponseObject(type, status, own) ==
    RequestObject(type, FALSE,
        Merge([command_status |-> status, error_code |-> PyNone,
               error_message |-> PyNone,
               source_agent_instance |-> HydroAgentInstance(LocalInstance)], own))

StatusValues == {PyNone, Scalar("CommandStatus", "SUCCEED"), Scalar("CommandStatus", "FAILED")}

\* command objects of every class of CommandUnion
CommandObjects ==
    {RequestObject(SIMCMD_TASK_INIT_REQUEST, b,
        [agent_list |-> List([i \in DOMAIN codes |-> HydroAgent(codes[i])]),
         biz_scene_configuration_url |-> url]) :
        b \in BOOLEAN, codes \in InitAgentLists, url \in {PyNone, Str("http://scene.url")}}
    \cup {ResponseObject(SIMCMD_TASK_INIT_RESPONSE, st,
            [created_agent_instances |-> List(created), managed_top_objects |-> EmptyDict]) :
            st \in StatusValues, created \in {<<>>, <<HydroAgentInstance(LocalInstance)>>}}
    \cup {RequestObject(SIMCMD_TASK_TERMINATE_REQUEST, b, [reason |-> r]) :
            b \in BOOLEAN, r \in {PyNone, Str("finished")}}
    \cup {RequestObject(SIMCMD_TICK_CMD_REQUEST, b, [step |-> Scalar("int", n)]) :
            b \in BOOLEAN, n \in {"0", "1"}}
    \cup {ResponseObject(type, st, EmptyMap) :
            type \in {SIMCMD_TASK_TERMINATE_RESPONSE, SIMCMD_TICK_CMD_RESPONSE,
                      SIMCMD_TIME_SERIES_DATA_UPDATE_RESPONSE},
            st \in StatusValues}
    \cup {RequestObject(SIMCMD_TIME_SERIES_CALCULATION_REQUEST, FALSE,
            [target_agent_instance |-> HydroAgentInstance(LocalInstance),
             hydro_event |-> e]) : e \in HydroEvents}
    \cup {ResponseObject(SIMCMD_TIME_SERIES_CALCULATION_RESPONSE, st,
            [hydro_event |-> GenericEvent, object_time_series_list |-> s]) :
            st \in StatusValues, s \in SeriesLists}
    \cup {RequestObject(SIMCMD_TIME_SERIES_DATA_UPDATE_REQUEST, FALSE,
            [time_series_data_changed_event |-> TimeSeriesDataChangedEvent(s)]) :
            s \in SeriesLists}
    \cup {RequestObject(SIMCMD_AGENT_INSTANCE_STATUS_REPORT, FALSE,
            [source_agent_instance |-> HydroAgentInstance(LocalInstance),
             created_state |-> Str("CREATED"), init_result |-> r]) :
            r \in {PyNone, EmptyDict}}
    \cup {RequestObject(SIMCMD_IDENTIFIED_PARAMS_REPORT, FALSE,
            [source_agent_instance |-> HydroAgentInstance(LocalInstance),
             recognized_params |-> List(ps)]) : ps \in {<<>>, <<EmptyDict>>}}
    \cup {RequestObject(SIMCMD_HYDRO_ALERT_REPORT, FALSE,
            [source_agent_instance |-> HydroAgentInstance(LocalInstance),
             hydro_alert_event |-> EmptyDict])}

\* a command object is about to be sent; nothing is published yet
ProtocolInit ==
    /\ sm = HostingManager
    /\ lastOp = NoOp
    /\ config = Config(max_retry_count, base_retry_delay_ms)
    /\ sends = EmptyMap
    /\ threads = NoThreads
    /\ connected = TRUE
    /\ mqtt_client = NoTransport
    /\ attempted = <<>>
    /\ agents = EmptyMap
    /\ \E command \in CommandObjects : queue = <<Entry(command, "enqueue")>>
    /\ worker = 1
    /\ running = TRUE
    /\ handled = NoHandled
    /\ published = NoPublication
    /\ resolved = NoResolution
    /\ msgCount = 0
    /\ agentCount = 0

\* send_command, _send_with_retry: payload = command.model_dump_json(
\* by_alias=True) is published; lastOp keeps the command object and the payload
PublishPayload ==
    /\ queue # <<>>
    /\ LET command == Head(queue).cmd
           payload == model_dump_json_by_alias(command)
       IN  /\ queue' = Tail(queue)
           /\ lastOp' = Op("model_dump_json", None, NoAgent, {}, command, payload)
           /\ published' = [cmd |-> payload, by |-> "send_command", topic |-> topic]
    /\ UNCHANGED <<sm, agents, worker, running, handled, resolved, msgCount, agentCount,
                   config, sends, threads, connected, attempted, mqtt_client>>

\* _on_message of a subscriber of the topic: the payload is parsed and
\* validated through SimCommandEnvelope; handled keeps the decoded command,
\* or that validation raised
ReceivePayload ==
    /\ published # NoPublication
    /\ msgCount = 0
    /\ LET decoded == SimCommandEnvelope(published.cmd)
       IN  handled' = [NoHandled EXCEPT !.cmd = decoded.value,
                                        !.handler = "_on_message",
                                        !.raised = ~decoded.ok]
    /\ msgCount' = msgCount + 1
    /\ UNCHANGED <<sm, lastOp, agents, queue, worker, running, published, resolved,
                   agentCount, config, sends, threads, connected, attempted, mqtt_client>>

ProtocolNext ==
    \/ PublishPayload
    \/ ReceivePayload

ProtocolSpec == ProtocolInit /\ [][ProtocolNext]_vars

-----------------------------------------------------------------------------
(* CacheSpec: the boundary-condition cache of a TickableAgent, which is     *)
(* called with ticks and time series data updates and queried by its        *)
(* simulation step through get_time_series_value                            *)

\* TimeSeriesValue(step=step, value=value)
TimeSeriesValue(step, value) == [step |-> step, value |-> value]

\* ObjectTimeSeries(object_id=..., metrics_code=..., time_series=[...])
TimeSeries(object_id, metrics_code, time_series) ==
    [object_id |-> object_id, metrics_code |-> metrics_code,
     time_series |-> time_series]

\* the lists of TimeSeriesValue the updates carry: empty, one entry, two
\* entries with the same step, two entries with different steps
TimeSeriesArgs ==
    {<<>>,
     <<TimeSeriesValue(0, "5.0")>>,
     <<TimeSeriesValue(1, "5.0")>>,
     <<TimeSeriesValue(0, "5.0"), TimeSeriesValue(0, "7.5")>>,
     <<TimeSeriesValue(1, "7.5"), TimeSeriesValue(0, "5.0")>>}

ObjectIds == {1, 2}
MetricsCode == "water_level"
StepArgs == {0, 1}

\* event.object_time_series of a TimeSeriesDataUpdateRequest: at most two
\* series, for the same or for different objects
ObjectTimeSeriesArgs ==
    LET series == {TimeSeries(o, MetricsCode, ts) : o \in ObjectIds, ts \in TimeSeriesArgs}
    IN  {<<>>} \cup {<<s>> : s \in series} \cup {<<s, t>> : s \in series, t \in series}

\* cache_key = f"{time_series.object_id}_{time_series.metrics_code}"
cache_key(object_id, metrics_code) == ToString(object_id) \o "_" \o metrics_code

\* a TickableAgent after __init__: _current_step = 0, _time_series_cache = {}
TickableAgent(inst) ==
    [inst |-> inst, status |-> "ACTIVE", current_step |-> 0,
     time_series_cache |-> EmptyMap]

\* the loop of on_time_series_data_update: self._time_series_cache[cache_key]
\* = time_series for every series of the event, in order
RECURSIVE cache_series(_, _)
cache_series(cache, object_time_series) ==
    IF object_time_series = <<>>
    THEN cache
    ELSE LET time_series == Head(object_time_series)
         IN  cache_series(
                 Put(cache, cache_key(time_series.object_id, time_series.metrics_code),
                     time_series),
                 Tail(object_time_series))

\* the effect of TickableAgent.on_time_series_data_update on the agent:
\* nothing when the first statement raises AttributeError; else the series
\* are cached before on_boundary_condition_update is called
update_agent(agent, object_time_series, outcome) ==
    IF outcome = "attribute_error"
    THEN agent
    ELSE [agent EXCEPT !.time_series_cache = cache_series(@, object_time_series)]

\* the effect of TickableAgent.on_tick on the agent: self._current_step =
\* request.step, the statement after the one that raises AttributeError
tick_agent(agent, step, outcome) ==
    IF outcome = "attribute_error"
    THEN agent
    ELSE [agent EXCEPT !.current_step = step]

\* the step argument of get_time_series_value: given, or left None
Step(given, step) == [given |-> given, step |-> step]

\* the scan of get_time_series_value: the value of the first entry whose
\* step is target_step, None when there is none
RECURSIVE scan(_, _)
scan(time_series, target_step) ==
    IF time_series = <<>>
    THEN None
    ELSE IF Head(time_series).step = target_step
    THEN Head(time_series).value
    ELSE scan(Tail(time_series), target_step)

\* TickableAgent.get_time_series_value(object_id, metrics_code, step=None)
get_time_series_value(agent, object_id, metrics_code, step) ==
    LET key == cache_key(object_id, metrics_code)
        target_step == IF step.given THEN step.step ELSE agent.current_step
    IN  IF key \notin DOMAIN agent.time_series_cache
        THEN None
        ELSE IF agent.time_series_cache[key].time_series = <<>>
        THEN None
        ELSE scan(agent.time_series_cache[key].time_series, target_step)

\* the tick-driven agent hosted for context c1
HostedTickableAgent == agents[LocalInstance.biz_scene_instance_id][1]

CacheInit ==
    /\ sm = HostingManager
    /\ lastOp = NoOp
    /\ config = Config(max_retry_count, base_retry_delay_ms)
    /\ sends = EmptyMap
    /\ threads = NoThreads
    /\ connected = FALSE
    /\ mqtt_client = NoTransport
    /\ attempted = <<>>
    /\ agents = [c \in {LocalInstance.biz_scene_instance_id} |->
                    <<TickableAgent(LocalInstance)>>]
    /\ queue = <<>>
    /\ worker = 0
    /\ running = FALSE
    /\ handled = NoHandled
    /\ published = NoPublication
    /\ resolved = NoResolution
    /\ msgCount = 0
    /\ agentCount = 1

\* a step of CacheSpec changes the hosted agent and the two history variables
CacheUnchanged ==
    UNCHANGED <<sm, queue, worker, running, published, resolved, msgCount,
                agentCount, config, sends, threads, connected, attempted, mqtt_client>>

\* agent.on_time_series_data_update(request): lastOp keeps the series of the
\* request's event
CallOnTimeSeriesDataUpdate ==
    \E object_time_series \in ObjectTimeSeriesArgs, outcome \in UpdateOutcomes :
        LET request == Command(SIMCMD_TIME_SERIES_DATA_UPDATE_REQUEST, "m1", "c1",
                               NoAgent, None, <<>>)
        IN  /\ agents' = [agents EXCEPT ![LocalInstance.biz_scene_instance_id] =
                            <<update_agent(HostedTickableAgent, object_time_series, outcome)>>]
            /\ handled' = [NoHandled EXCEPT !.cmd = request,
                                            !.handler = "on_time_series_data_update",
                                            !.raised = (outcome = "attribute_error"),
                                            !.outcome = outcome]
            /\ lastOp' = Op("on_time_series_data_update", "c1", LocalInstance, {},
                            request, object_time_series)
            /\ CacheUnchanged

\* agent.on_tick(request) with request.step = step
CallOnTickStep ==
    \E step \in StepArgs, outcome \in TickOutcomes :
        LET request == Command(SIMCMD_TICK_CMD_REQUEST, "m1", "c1", NoAgent, None, <<>>)
        IN  /\ agents' = [agents EXCEPT ![LocalInstance.biz_scene_instance_id] =
                            <<tick_agent(HostedTickableAgent, step, outcome)>>]
            /\ handled' = [NoHandled EXCEPT !.cmd = request,
                                            !.handler = "on_tick",
                                            !.raised = (outcome = "attribute_error"),
                                            !.outcome = outcome]
            /\ lastOp' = Op("on_tick", "c1", LocalInstance, {}, request, Step(TRUE, step))
            /\ CacheUnchanged

\* self.get_time_series_value(object_id, metrics_code[, step]) called by the
\* simulation step of the agent: lastOp keeps the object id, the step argument
\* (as cmd) and the result
CallGetTimeSeriesValue ==
    \E object_id \in ObjectIds,
       step \in {Step(FALSE, 0)} \cup {Step(TRUE, n) : n \in StepArgs} :
        /\ lastOp' = Op("get_time_series_value", "c1", LocalInstance, {object_id},
                        step,
                        get_time_series_value(HostedTickableAgent, object_id,
                                              MetricsCode, step))
        /\ handled' = NoHandled
        /\ UNCHANGED agents
        /\ CacheUnchanged

CacheNext ==
    \/ CallOnTimeSeriesDataUpdate
    \/ CallOnTickStep
    \/ CallGetTimeSeriesValue

CacheSpec == CacheInit /\ [][CacheNext]_vars

-----------------------------------------------------------------------------
(* Properties of MessageFilter, checked under FilterSpec *)

Filtered(types) ==
    /\ lastOp.op = "should_process_message"
    /\ lastOp.cmd.command_type \in types

\* the source of a command is hosted by this process: its agent_id is in the
\* local-agent set, or it carries no agent_id and sits on the manager's node
SourceIsLocal(cmd) ==
    \/ cmd.source_agent_instance.agent_id \in sm.local_agent_instances
    \/ /\ cmd.source_agent_instance.agent_id = ""
       /\ sm.hydros_node_id \notin {None, ""}
       /\ cmd.source_agent_instance.hydros_node_id = sm.hydros_node_id

EchoTypes == {SIMCMD_AGENT_INSTANCE_STATUS_REPORT, SIMCMD_TASK_INIT_RESPONSE}

\* C2: self-echo suppression. For an AgentInstanceStatusReport or a
\* SimTaskInitResponse whose context is active, should_process_message is
\* false when the source agent instance is local (in particular whenever its
\* agent_id is in the local-agent set) and true when the source is not local.
C2_SelfEchoSuppressed ==
    /\ \A cmd \in FilterCommands :
        (cmd.command_type \in EchoTypes /\ cmd.context \in sm.active_contexts)
            => /\ cmd.source_agent_instance.agent_id \in sm.local_agent_instances
                    => ~should_process_message(sm, cmd)
               /\ should_process_message(sm, cmd) = ~SourceIsLocal(cmd)
    /\ (Filtered(EchoTypes) /\ lastOp.context \in sm.active_contexts)
            => lastOp.result = ~SourceIsLocal(lastOp.cmd)

\* a local echo was rejected while its context was active
C2_Witness ==
    /\ Filtered(EchoTypes)
    /\ lastOp.context \in sm.active_contexts
    /\ lastOp.cmd.source_agent_instance.agent_id \in sm.local_agent_instances
    /\ lastOp.result = FALSE

\* C6: should_process_message(SimTaskInitRequest) is true in every reachable
\* state: context active, terminated or never seen, any local-agent set.
C6_TaskInitAlwaysProcessed ==
    /\ \A cmd \in FilterCommands :
        cmd.command_type = SIMCMD_TASK_INIT_REQUEST => should_process_message(sm, cmd)
    /\ Filtered({SIMCMD_TASK_INIT_REQUEST}) => lastOp.result = TRUE

\* an init request for a terminated, inactive context was accepted while an
\* agent was local
C6_Witness ==
    /\ Filtered({SIMCMD_TASK_INIT_REQUEST})
    /\ lastOp.result = TRUE
    /\ lastOp.context \in DOMAIN sm.task_states
    /\ sm.task_states[lastOp.context].status = "TERMINATED"
    /\ lastOp.context \notin sm.active_contexts
    /\ sm.local_agent_instances # {}

OtherRequests == SimCoordinationRequest \ {SIMCMD_TASK_INIT_REQUEST}

\* C7: for Tick, Terminate, TimeSeriesDataUpdate and TimeSeriesCalculation
\* requests with context C, should_process_message is true iff C is in the
\* active-context set; the local-agent set and node id have no influence.
C7_RequestsFollowActiveContext ==
    /\ \A cmd \in FilterCommands :
        cmd.command_type \in OtherRequests
            => should_process_message(sm, cmd) = (cmd.context \in sm.active_contexts)
    /\ Filtered(OtherRequests)
            => lastOp.result = (lastOp.context \in sm.active_contexts)

\* a tick for an active context was accepted with a non-empty local set, the
\* other context being inactive
C7_Witness ==
    /\ Filtered({SIMCMD_TICK_CMD_REQUEST})
    /\ lastOp.result = TRUE
    /\ lastOp.context = "c1"
    /\ sm.active_contexts = {"c1"}
    /\ sm.local_agent_instances # {}

DeniedTypes ==
    (SimCoordinationResponse \cup ReportTypes) \ EchoTypes

\* C8: default deny. TickResponse, TerminateResponse,
\* TimeSeriesDataUpdateResponse, TimeSeriesCalculationResponse,
\* ParameterIdentifiedReport and AlertReport are never processed, even with an
\* active context and a remote source.
C8_DefaultDeny ==
    /\ \A cmd \in FilterCommands :
        cmd.command_type \in DeniedTypes => ~should_process_message(sm, cmd)
    /\ Filtered(DeniedTypes) => lastOp.result = FALSE

\* a tick response of a remote agent for an active context was rejected
C8_Witness ==
    /\ Filtered({SIMCMD_TICK_CMD_RESPONSE})
    /\ lastOp.context \in sm.active_contexts
    /\ ~SourceIsLocal(lastOp.cmd)
    /\ lastOp.result = FALSE

-----------------------------------------------------------------------------
(* Properties of AgentStateManager, checked under ManagerSpec *)

\* C9: after init_task(C, agents) with a valid C, has_active_context(C) is
\* true, the TaskState of C is ACTIVE and every listed agent with an id is
\* registered; has_active_context(C) then stays true until terminate_task(C),
\* remove_active_context(C) or clear(); it is false after terminate_task(C).
C9_InitTaskActivates ==
    /\ [](/\ (lastOp.op = "init_task" /\ ValidContext(lastOp.context))
                => /\ has_active_context(sm, lastOp.context)
                   /\ lastOp.context \in DOMAIN sm.task_states
                   /\ sm.task_states[lastOp.context].status = "ACTIVE"
                   /\ lastOp.ids \subseteq DOMAIN sm.agent_instances
          /\ (lastOp.op = "terminate_task" /\ ValidContext(lastOp.context))
                => ~has_active_context(sm, lastOp.context))
    /\ [][\A c \in CtxIds :
            (has_active_context(sm, c) /\ ~has_active_context(sm', c))
                => \/ lastOp'.op = "clear"
                   \/ /\ lastOp'.op \in {"terminate_task", "remove_active_context"}
                      /\ lastOp'.context = c]_vars

\* init_task("c1", two agents with ids) has just run
C9_Witness ==
    /\ lastOp.op = "init_task"
    /\ lastOp.context = "c1"
    /\ lastOp.ids = {"a1", "a2"}
    /\ "c1" \in sm.active_contexts
    /\ {"a1", "a2"} \subseteq DOMAIN sm.agent_instances

\* a context is active iff a TaskState with a status other than TERMINATED
\* exists for it
ActiveIffTask(s, c) ==
    (c \in s.active_contexts)
        <=> (c \in DOMAIN s.task_states /\ s.task_states[c].status # "TERMINATED")

\* C10 as stated: the equivalence holds in every state reachable by any
\* sequence of public operations, add_active_context and
\* remove_active_context included.
C10_ActiveIffTask_Original ==
    \A c \in CtxIds : ActiveIffTask(sm, c)

\* C10 as amended: the equivalence holds initially and is preserved by every
\* operation other than a direct add_active_context / remove_active_context;
\* init_task(C), terminate_task(C) and clear() establish it for C. Hence it
\* holds in every state reachable by init_task, terminate_task, clear and the
\* agent-registry operations alone.
C10_ActiveIffTask ==
    /\ \A c \in CtxIds : ActiveIffTask(sm, c)
    /\ [][/\ lastOp'.op \notin {"add_active_context", "remove_active_context"}
                => \A c \in CtxIds : ActiveIffTask(sm, c) => ActiveIffTask(sm', c)
          /\ lastOp'.op = "clear"
                => \A c \in CtxIds : ActiveIffTask(sm', c)
          /\ (lastOp'.op \in {"init_task", "terminate_task"}
                /\ ValidContext(lastOp'.context))
                => ActiveIffTask(sm', lastOp'.context)]_vars

\* terminate_task("c1") has just run on an initialised task while "c2" is
\* still active with an ACTIVE TaskState
C10_Witness ==
    /\ lastOp.op = "terminate_task"
    /\ lastOp.context = "c1"
    /\ "c1" \in DOMAIN sm.task_states
    /\ sm.task_states["c1"].status = "TERMINATED"
    /\ "c1" \notin sm.active_contexts
    /\ "c2" \in sm.active_contexts
    /\ "c2" \in DOMAIN sm.task_states
    /\ sm.task_states["c2"].status = "ACTIVE"

-----------------------------------------------------------------------------
(* Properties of SimCoordinationClient, checked under Spec *)

\* C1: a decoded inbound command other than a SimTaskInitRequest reaches a
\* handler only if its context is in the active-context set when the filter
\* runs; so a Tick, Terminate, TimeSeriesDataUpdate or TimeSeriesCalculation
\* request for a context that was never initialised (no TaskState) or has been
\* terminated is never dispatched.
C1_DispatchOnlyIfActive ==
    (handled.handler # None /\ handled.cmd.command_type # SIMCMD_TASK_INIT_REQUEST)
        => /\ handled.active
           /\ handled.status \notin {"NONE", "TERMINATED"}

\* a tick for the active context c1 was dispatched while c2 was not active
C1_Witness ==
    /\ handled.handler = "on_tick"
    /\ handled.cmd.context = "c1"
    /\ handled.active
    /\ "c2" \notin sm.active_contexts
    /\ queue # <<>>

\* the agent lifecycle handlers whose responses are enqueued by send_response
LifecycleOrigins == {"on_tick", "on_time_series_data_update", "on_terminate"}

\* C3: every response an agent's lifecycle handler produced and passed to
\* enqueue() is published by the (running, scheduled) worker unless
\* max_retry_count + 1 consecutive attempts fail: the worker never finishes
\* with such an entry without having handed it to send_with_retry.
C3_LocalResponsesDelivered ==
    resolved.entry.origin \in LifecycleOrigins
        => resolved.outcome \in {"sent", "failed"}

\* C4: no Request-type command is ever published on the topic, whether it
\* was submitted by enqueue() and the worker or by send_command().
C4_RequestsNeverPublished ==
    published.cmd.command_type \notin SimCoordinationRequest

\* Response or Report variant with a local source
LocalResponseOrReport(s, command) ==
    /\ command.command_type \in SimCoordinationResponse \cup ReportTypes
    /\ is_local_agent(s, command.source_agent_instance)

\* C5: should_send(cmd) holds iff cmd is a Response or a Report
\* (AgentInstanceStatusReport, ParameterIdentifiedReport, AlertReport) and its
\* source is local when the worker dequeues it; the worker hands a dequeued
\* command to send_with_retry exactly when should_send holds.
C5_ShouldSendIffLocalResponseOrReport ==
    /\ \A i \in DOMAIN queue :
        should_send(sm, queue[i].cmd) = LocalResponseOrReport(sm, queue[i].cmd)
    /\ resolved.outcome # None
        => (resolved.outcome # "skipped")
            = (/\ resolved.entry.cmd.command_type
                    \in SimCoordinationResponse \cup ReportTypes
               /\ resolved.local)

-----------------------------------------------------------------------------
(* Further properties of AgentStateManager *)

\* C11: add_active_context, remove_active_context and terminate_task are
\* idempotent: applied twice to the same context (valid or not) they leave the
\* manager as after one application; terminate_task on a context without a
\* TaskState creates none. Checked under ManagerSpec.
C11_Idempotent ==
    \A c \in CtxArgs :
        /\ add_active_context(add_active_context(sm, c), c) = add_active_context(sm, c)
        /\ remove_active_context(remove_active_context(sm, c), c)
                = remove_active_context(sm, c)
        /\ terminate_task(terminate_task(sm, c), c) = terminate_task(sm, c)
        /\ c \notin DOMAIN sm.task_states
                => terminate_task(sm, c).task_states = sm.task_states

\* terminate_task("c1") has run on an initialised task with a registered and a
\* local agent, and running it again changes nothing
C11_Witness ==
    /\ lastOp.op = "terminate_task"
    /\ lastOp.context = "c1"
    /\ "c1" \in DOMAIN sm.task_states
    /\ sm.task_states["c1"].status = "TERMINATED"
    /\ DOMAIN sm.agent_instances # {}
    /\ sm.local_agent_instances # {}
    /\ terminate_task(sm, "c1") = sm

\* C12: for an instance with a non-empty agent_id, is_local_agent is true iff
\* the id is in the local-agent set, whatever the instance's node id and the
\* manager's node id (true right after add_local_agent, false right after
\* remove_local_agent); only an instance without agent_id is judged by
\* comparing its node id with the manager's. Checked under FilterSpec.
C12_LocalSetAuthoritative ==
    /\ \A id \in AgentIds, node \in NodeIds :
        is_local_agent(sm, Instance(id, node, "", ""))
            = (id \in sm.local_agent_instances)
    /\ \A node \in NodeIds :
        is_local_agent(sm, Instance("", node, "", ""))
            = (sm.hydros_node_id \notin {None, ""} /\ node = sm.hydros_node_id)
    /\ (lastOp.op = "add_local_agent" /\ HasAgentId(lastOp.agent))
            => is_local_agent(sm, lastOp.agent)
    /\ (lastOp.op = "remove_local_agent" /\ HasAgentId(lastOp.agent))
            => ~is_local_agent(sm, lastOp.agent)
    /\ (lastOp.op = "is_local_agent" /\ HasAgentId(lastOp.agent))
            => lastOp.result = (lastOp.agent.agent_id \in sm.local_agent_instances)

\* the agent a1 of the manager's own node n1 has just been removed from the
\* local set and is not local, while a2 of node n2 is local
C12_Witness ==
    /\ lastOp.op = "remove_local_agent"
    /\ lastOp.agent = Instance("a1", "n1", "", "")
    /\ sm.hydros_node_id = "n1"
    /\ ~is_local_agent(sm, lastOp.agent)
    /\ is_local_agent(sm, Instance("a2", "n2", "", ""))

\* C13 as stated: is_remote_agent(a) is the negation of is_local_agent(a) for
\* every argument, the null instance included.
C13_RemoteIsNotLocal_Original ==
    \A a \in SourceArgs \cup {NoAgent} :
        is_remote_agent(sm, a) = ~is_local_agent(sm, a)

\* C13 as amended: is_remote_agent(a) is the negation of is_local_agent(a) for
\* every instance (registered or unknown, with or without agent_id); for the
\* null instance both return false. Checked under FilterSpec.
C13_RemoteIsNotLocal ==
    /\ \A a \in SourceArgs \cup {Instance(id, node, "", "") : id \in AgentIds, node \in NodeIds} :
        is_remote_agent(sm, a) = ~is_local_agent(sm, a)
    /\ ~is_remote_agent(sm, NoAgent)
    /\ ~is_local_agent(sm, NoAgent)
    /\ (lastOp.op = "is_remote_agent" /\ lastOp.agent # NoAgent)
            => lastOp.result = ~is_local_agent(sm, lastOp.agent)
    /\ (lastOp.op = "is_remote_agent" /\ lastOp.agent = NoAgent)
            => lastOp.result = FALSE

\* is_remote_agent has just answered true for an instance without agent_id on
\* another node while some agent is local
C13_Witness ==
    /\ lastOp.op = "is_remote_agent"
    /\ lastOp.agent = Instance("", "n2", "", "")
    /\ lastOp.result = TRUE
    /\ sm.hydros_node_id = "n1"
    /\ sm.local_agent_instances # {}

\* C14: every operation called with a null or empty-id context, a null agent,
\* an agent without agent_id or an unknown agent id leaves the manager
\* unchanged; has_active_context is false for a null or empty-id context.
\* Checked under ManagerSpec.
C14_InvalidInputNoOp ==
    /\ \A c \in {"", None} :
        /\ add_active_context(sm, c) = sm
        /\ remove_active_context(sm, c) = sm
        /\ terminate_task(sm, c) = sm
        /\ ~has_active_context(sm, c)
        /\ \A agentList \in AgentListArgs : init_task(sm, c, agentList) = sm
    /\ \A a \in {x \in RegisterArgs : ~HasAgentId(x)} :
        /\ register_agent_instance(sm, a) = sm
        /\ add_local_agent(sm, a) = sm
        /\ remove_local_agent(sm, a) = sm
    /\ \A id \in (AgentIds \cup {"", None}) \ DOMAIN sm.agent_instances :
        /\ unregister_agent_instance(sm, id) = sm
        /\ get_agent_instance(sm, id) = NoAgent

\* init_task was called with an empty-id context and two agents carrying ids:
\* nothing was registered although another context is active
C14_Witness ==
    /\ lastOp.op = "init_task"
    /\ lastOp.context = ""
    /\ lastOp.ids = {"a1", "a2"}
    /\ DOMAIN sm.agent_instances = {}
    /\ sm.active_contexts # {}

\* the last instance of a list that carries the id, or NoAgent
RECURSIVE LastWithId(_, _)
LastWithId(agentList, id) ==
    IF agentList = <<>>
    THEN NoAgent
    ELSE IF agentList[Len(agentList)].agent_id = id
    THEN agentList[Len(agentList)]
    ELSE LastWithId(SubSeq(agentList, 1, Len(agentList) - 1), id)

\* C15: the registry holds at most one instance per agent_id, stored under its
\* own id: get_agent_instance(id) is the instance most recently registered
\* under id by register_agent_instance or init_task (re-registration
\* overwrites), nothing after unregister_agent_instance(id); registering one
\* id leaves the entry of every other id as it was. Checked under ManagerSpec.
C15_RegistryOnePerId ==
    /\ \A id \in DOMAIN sm.agent_instances : sm.agent_instances[id].agent_id = id
    /\ (lastOp.op = "register_agent_instance" /\ HasAgentId(lastOp.agent))
            => get_agent_instance(sm, lastOp.agent.agent_id) = lastOp.agent
    /\ lastOp.op = "unregister_agent_instance"
            => \A id \in lastOp.ids : get_agent_instance(sm, id) = NoAgent
    /\ \A a \in {x \in RegisterArgs : HasAgentId(x)} :
        /\ get_agent_instance(register_agent_instance(sm, a), a.agent_id) = a
        /\ \A other \in AgentIds \ {a.agent_id} :
            get_agent_instance(register_agent_instance(sm, a), other)
                = get_agent_instance(sm, other)
    /\ \A agentList \in AgentListArgs, id \in AgentIds :
        get_agent_instance(init_task(sm, "c1", agentList), id)
            = IF LastWithId(agentList, id) # NoAgent
              THEN LastWithId(agentList, id)
              ELSE get_agent_instance(sm, id)
    /\ \A id \in AgentIds :
        get_agent_instance(unregister_agent_instance(sm, id), id) = NoAgent

\* the id a1, registered before, has just been registered again with another
\* instance, which replaced the first; the entry of a2 is still there
C15_Witness ==
    /\ lastOp.op = "register_agent_instance"
    /\ lastOp.agent = Instance("a1", "n2", "", "")
    /\ get_agent_instance(sm, "a1") = Instance("a1", "n2", "", "")
    /\ get_agent_instance(sm, "a2") = Instance("a2", "n2", "", "")
    /\ get_agent_instance(register_agent_instance(sm, Instance("a1", "n1", "", "")), "a1")
            = Instance("a1", "n1", "", "")

-----------------------------------------------------------------------------
(* Properties of _send_with_retry, checked under RetrySpec *)

\* C16: when every publish attempt fails, _send_with_retry makes exactly
\* max_retry_count + 1 attempts and raises; when attempt k succeeds it returns
\* after exactly k + 1 attempts and makes no further attempt; it has slept
\* exactly once after each failed attempt that another attempt follows, never
\* after the last failed attempt (max_retry_count = 0: one attempt, no sleep).
C16_AttemptsAndSleeps ==
    /\ [](\A t \in DOMAIN sends :
            LET call == sends[t]
            IN  /\ call.pc = "raised"
                    => /\ call.attempts = config.max_retry_count + 1
                       /\ Len(call.delays) = config.max_retry_count
                /\ call.pc = "returned"
                    => /\ call.attempts = call.attempt + 1
                       /\ call.attempts <= config.max_retry_count + 1
                       /\ Len(call.delays) = call.attempts - 1
                /\ call.pc = "publish"
                    => /\ call.attempts = call.attempt
                       /\ call.attempts <= config.max_retry_count
                       /\ Len(call.delays) = call.attempts
                /\ (call.pc # "publish" /\ config.max_retry_count = max_retry_count)
                    => send_with_retry(0, call.attempt)
                            = (IF call.pc = "returned" THEN "sent" ELSE "failed"))
    /\ [][\A t \in DOMAIN sends :
            sends[t].pc # "publish"
                => (sends'[t] = sends[t] \/ sends'[t].attempts = 0)]_vars

\* with max_retry_count = 5 every attempt of a call failed: six attempts,
\* five sleeps, raised
C16_Witness ==
    /\ config.max_retry_count = 5
    /\ CallerThread \in DOMAIN sends
    /\ sends[CallerThread].pc = "raised"
    /\ sends[CallerThread].attempts = 6
    /\ Len(sends[CallerThread].delays) = 5

\* C17 as stated: the delay slept after the i-th failed attempt, counted from
\* i = 0, is base_retry_delay_ms * 2^i, so the first retry waits the base delay.
C17_BackoffDelays_Original ==
    \A t \in DOMAIN sends :
        \A n \in DOMAIN sends[t].delays :
            sends[t].delays[n] = config.base_retry_delay_ms * Pow2(n - 1)

\* C17 as amended: the delay slept after the i-th failed attempt, counted from
\* i = 0, is base_retry_delay_ms * 2^(i+1), so the first retry waits twice the
\* base delay; the successive delays strictly increase, each being twice the
\* previous one.
C17_BackoffDelays ==
    \A t \in DOMAIN sends :
        \A n \in DOMAIN sends[t].delays :
            /\ sends[t].delays[n] = config.base_retry_delay_ms * Pow2(n)
            /\ n > 1 => /\ sends[t].delays[n] = 2 * sends[t].delays[n - 1]
                        /\ sends[t].delays[n] > sends[t].delays[n - 1]

\* with the default base delay of 1000 ms a call has slept 2000, 4000 and
\* 8000 ms after three failed attempts
C17_Witness ==
    /\ config.base_retry_delay_ms = base_retry_delay_ms
    /\ CallerThread \in DOMAIN sends
    /\ sends[CallerThread].delays = <<2000, 4000, 8000>>

-----------------------------------------------------------------------------
(* Properties of start(), stop() and the worker, checked under LifecycleSpec *)

\* C18: the workers' publish attempts follow the enqueue order: no publish
\* attempt of a command enqueued earlier comes after a publish attempt of a
\* command enqueued later.
C18_EnqueueOrder ==
    \A i, j \in DOMAIN attempted :
        i < j => EnqueueIndex(attempted[i]) <= EnqueueIndex(attempted[j])

-----------------------------------------------------------------------------
(* Error handling of the inbound path, checked under Spec *)

\* a valid tick request for context c1, the next message to arrive
NextTick == Command(SIMCMD_TICK_CMD_REQUEST, NextCommandId, "c1", NoAgent, None, <<>>)

\* C19: for every payload that cannot be decoded (invalid UTF-8, invalid JSON,
\* unknown or missing command_type, schema violation) _on_message logs the
\* exception and returns; the step invokes no handler and leaves the state
\* manager, the hosted agents, the outbound queue and the running flag as
\* they were, so that later messages are filtered and dispatched as before.
C19_UndecodableDropped ==
    /\ [](\A payload \in UndecodablePayloads : \A raises \in BOOLEAN :
            on_message(sm, payload, raises) = "decode_error")
    /\ [][handled'.outcome = "decode_error"
            => /\ handled'.handler = None
               /\ sm' = sm
               /\ agents' = agents
               /\ queue' = queue
               /\ running' = running]_vars

\* an undecodable payload has just been dropped while context c1 is active,
\* and a valid tick request arriving next is dispatched to its handler
C19_Witness ==
    /\ handled.outcome = "decode_error"
    /\ "c1" \in sm.active_contexts
    /\ running
    /\ msgCount < MaxMsgs
    /\ on_message(sm, model_dump_json(NextTick), FALSE) = "handled"

\* C20: when the callback method of an accepted command raises, the exception
\* is logged inside _handle_incoming_message and does not reach _on_message;
\* the step enqueues nothing, publishes nothing and leaves the running flag,
\* the state manager and the hosted agents as they were, so that the next
\* inbound commands are filtered and dispatched as before.
C20_HandlerErrorContained ==
    [][handled'.raised
        => /\ handled'.outcome = "handler_error"
           /\ queue' = queue
           /\ published' = NoPublication
           /\ running' = running
           /\ sm' = sm
           /\ agents' = agents]_vars

\* on_time_series_calculation has just raised for a request of the active
\* context c1, and a valid tick request arriving next is dispatched
C20_Witness ==
    /\ handled.raised
    /\ handled.handler = "on_time_series_calculation"
    /\ handled.cmd.context = "c1"
    /\ running
    /\ msgCount < MaxMsgs
    /\ on_message(sm, model_dump_json(NextTick), FALSE) = "handled"

-----------------------------------------------------------------------------
(* Connection handling of start() and stop(), checked under LifecycleSpec *)

\* C21: a start() that starts the worker does so only when the connected
\* flag is set, the broker has acknowledged the connection start() opened and
\* _on_connect has issued the subscription for it; a start() whose connection
\* is not acknowledged within the bound raises, leaves running clear, and no
\* worker thread exists.
C21_StartAfterAck ==
    [][/\ threads'.started > threads.started
            => /\ connected'
               /\ mqtt_client'.link = "open"
               /\ mqtt_client'.subscribed
       /\ (lastOp'.op = "start" /\ mqtt_client'.link # "open")
            => /\ ~lastOp'.result
               /\ ~running'
               /\ worker' = 0]_vars

\* C22: the connected flag is set only while the connection is acknowledged
\* and open, and it is clear when stop() has returned.
C22_ConnectedOnlyWhileOpen ==
    /\ connected => mqtt_client.link = "open"
    /\ lastOp.op \in {"stop", "stop_ignored"} => ~connected

-----------------------------------------------------------------------------
(* Properties of the agent lifecycle under MultiAgentCallback, checked      *)
(* under Spec                                                               *)

\* the agents whose method the last step's handler called: on_tick and
\* on_time_series_data_update leave self.agents and the manager unchanged
Invoked ==
    IF handled.handler \in {"on_tick", "on_time_series_data_update"}
    THEN {AgentsOf(handled.cmd.context)[i] : i \in DOMAIN AgentsOf(handled.cmd.context)}
    ELSE {}

\* C23: on_tick or on_time_series_data_update of an agent instance is invoked
\* only while the instance is ACTIVE, that is after its own on_init succeeded
\* (agent_biz_status ACTIVE, registered, in the local-agent set) and before
\* its on_terminate; an instance whose on_init failed never receives a tick
\* or a data update.
C23_InvokedOnlyWhileActive ==
    \A agent \in Invoked :
        /\ agent.agent_biz_status = "ACTIVE"
        /\ agent.inst.agent_id \in DOMAIN sm.agent_instances
        /\ agent.inst.agent_id \in sm.local_agent_instances

\* the registered agent instances that were created for a context
CreatedFor(context) ==
    {id \in DOMAIN sm.agent_instances :
        sm.agent_instances[id].biz_scene_instance_id = context}

\* C24: after a SimTaskTerminateRequest for context C has been handled, every
\* agent instance that was created for C is unregistered: it is absent from
\* the agent-instance registry and from the local-agent set, and C is no
\* longer active.
C24_TerminatedAgentsUnregistered ==
    handled.handler = "on_task_terminate"
        => /\ CreatedFor(handled.cmd.context) = {}
           /\ ~has_active_context(sm, handled.cmd.context)

\* the entries of the outbound queue that answer a request for an agent
Answers(request, agent, type) ==
    {i \in DOMAIN queue :
        /\ queue[i].cmd.command_type = type
        /\ queue[i].cmd.command_id = request.command_id
        /\ queue[i].cmd.source_agent_instance = agent.inst
        /\ queue[i].cmd.command_status \in {"SUCCEED", "FAILED"}}

\* C25: a tick-driven agent answers every TickCmdRequest: TickableAgent.on_tick
\* returns exactly one TickCmdResponse carrying the request's command_id and
\* the agent as source, SUCCEED when the simulation step returns and FAILED
\* when it raises; on_tick itself never raises. So after the tick handler
\* every agent it called has exactly one such response in the outbound queue.
C25_TickAnswered ==
    handled.handler = "on_tick"
        => \A agent \in Invoked :
              Cardinality(Answers(handled.cmd, agent, SIMCMD_TICK_CMD_RESPONSE)) = 1

\* C27: PROACTIVE agents receive no coordinator-driven commands: no inbound
\* TickCmdRequest, TimeSeriesDataUpdateRequest or TimeSeriesCalculationRequest
\* ever leads to an invocation of on_tick, on_time_series_data_update or
\* on_time_series_calculation of an instance whose drive_mode is PROACTIVE.
C27_ProactiveNeverInvoked ==
    \A agent \in Invoked : drive_mode(agent) # "PROACTIVE"

\* the agents that the task-init request handled last has stored (a request
\* that creates agents replaces self.agents[context_id] by them)
StoredBy(request) ==
    {AgentsOf(request.context)[i] : i \in DOMAIN AgentsOf(request.context)}

\* a task-init request was handled and on_init of an agent it stored succeeded
InitSucceeded ==
    /\ handled.handler = "on_sim_task_init"
    /\ \E agent \in StoredBy(handled.cmd) : agent.agent_biz_status = "ACTIVE"

\* the state the task-init scenario ends in
InitScenarioEnd ==
    /\ has_active_context(sm, handled.cmd.context)
    /\ \A agent \in StoredBy(handled.cmd) :
          agent.agent_biz_status = "ACTIVE"
             => agent.inst.agent_id \in sm.local_agent_instances
    /\ queue # <<>>
    /\ LET sent == queue[Len(queue)].cmd
       IN  /\ sent.command_type = SIMCMD_TASK_INIT_RESPONSE
           /\ sent.context = handled.cmd.context
           /\ sent.command_status = "SUCCEED"
           /\ is_local_agent(sm, sent.source_agent_instance)
           /\ should_send(sm, sent)

\* C28: when the client handles a SimTaskInitRequest for context T whose
\* agent_list names an agent code with a registered factory and that agent's
\* on_init succeeds, then afterwards has_active_context(T) holds, the created
\* agent is in the local-agent set, and one SimTaskInitResponse with
\* command_status SUCCEED and a local source agent is in the outbound queue,
\* so that the worker finds it eligible and publishes it.
C28_TaskInitScenario ==
    [][(agents' # agents /\ InitSucceeded') => InitScenarioEnd']_vars

\* the result of the loop of on_sim_task_init for a request, started in the
\* current state
LoopResult(request, outcomes) ==
    InitAgents(NoAgentsYet(sm, agentCount), request.agent_list, outcomes, request)

C30_CallbackNeverPublishes ==
    /\ handled.handler # None => published = NoPublication
    /\ published.by # "callback"

-----------------------------------------------------------------------------
(* Properties of ModelCalculationAgent, checked under CalculationSpec *)

\* C26: a ModelCalculationAgent replies to every TickCmdRequest with a FAILED
\* TickCmdResponse carrying the request's command_id, without running its
\* model calculation and without changing its own state; for every
\* TimeSeriesCalculationRequest it enqueues exactly one
\* TimeSeriesCalculationResponse, SUCCEED if the calculation returns and
\* FAILED with an empty result list if it raises.
C26_EventDrivenReplies ==
    /\ [][lastOp'.op = "on_tick"
            => /\ lastOp'.cmd.command_type = SIMCMD_TICK_CMD_RESPONSE
               /\ lastOp'.cmd.command_status = "FAILED"
               /\ lastOp'.cmd.command_id = handled'.cmd.command_id
               /\ ~lastOp'.result
               /\ agents' = agents
               /\ queue' = queue]_vars
    /\ [][lastOp'.op = "on_time_series_calculation"
            => /\ Len(queue') = Len(queue) + 1
               /\ SubSeq(queue', 1, Len(queue)) = queue
               /\ LET sent == queue'[Len(queue')].cmd
                  IN  /\ sent.command_type = SIMCMD_TIME_SERIES_CALCULATION_RESPONSE
                      /\ sent.command_id = handled'.cmd.command_id
                      /\ sent.source_agent_instance = HostedModelAgent.inst
                      /\ sent.command_status
                            = (IF handled'.raised THEN "FAILED" ELSE "SUCCEED")
                      /\ handled'.raised => sent.object_time_series_list = <<>>]_vars

\* a tick was answered after a calculation that raised and one that
\* returned two series had each sent a response
C26_Witness ==
    /\ lastOp.op = "on_tick"
    /\ lastOp.cmd.command_status = "FAILED"
    /\ Len(queue) = 2
    /\ queue[1].cmd.command_status = "FAILED"
    /\ queue[2].cmd.command_status = "SUCCEED"
    /\ Len(queue[2].cmd.object_time_series_list) = MaxSeries


-----------------------------------------------------------------------------
(* Properties of the command encoding, checked under ProtocolSpec *)

\* the last step decoded the payload of the command object lastOp.cmd
Decoded == handled.handler = "_on_message"

\* C31: for every command object of a class of CommandUnion, encoding it with
\* model_dump_json(by_alias=True) and decoding the JSON through
\* SimCommandEnvelope yields, without a validation error, a command of the
\* same class whose fields equal the original's, field for field.
C31_RoundTrip ==
    Decoded =>
        /\ ~handled.raised
        /\ handled.cmd.cls = lastOp.cmd.cls
        /\ handled.cmd.fields = lastOp.cmd.fields

\* the round trip of a command whose values are all of JSON's own types and
\* of the declared classes reproduces it
C31_Witness ==
    /\ Decoded
    /\ lastOp.cmd.cls = SIMCMD_TIME_SERIES_DATA_UPDATE_REQUEST
    /\ handled.cmd = lastOp.cmd

-----------------------------------------------------------------------------
(* Properties of the outbound worker, checked under Spec *)

\* the last step was a worker iteration in which _send_with_retry raised
SendFailed == resolved.outcome = "failed"

\* C32: when _send_with_retry exhausts its retry budget for a dequeued
\* command, the worker loop catches the failure: the command was taken from
\* the head of the queue and is not put back, nothing is published for it,
\* the worker stays alive and the client running, so the commands still
\* queued and those enqueued later are dequeued by the next iterations; the
\* step raises nothing on the transport callback thread.
C32_WorkerSurvivesFailure ==
    /\ [](SendFailed =>
            /\ running
            /\ worker > 0
            /\ handled = NoHandled
            /\ published = NoPublication
            /\ \A i \in DOMAIN queue : queue[i] # resolved.entry)
    /\ [][SendFailed' =>
            /\ queue # <<>>
            /\ resolved'.entry = Head(queue)
            /\ queue' = Tail(queue)
            /\ worker' = worker
            /\ running' = running]_vars

\* a send failed while another command waits in the queue
C32_Witness ==
    /\ SendFailed
    /\ queue # <<>>
    /\ running
    /\ worker > 0

-----------------------------------------------------------------------------
(* Properties of start() and stop(), checked under LifecycleSpec *)

\* the last step was the return of a stop() that cleared the running flag
StopReturned == lastOp.op = "stop"

\* C33: when stop() on a running client disconnects the transport and
\* returns, the worker thread has exited: no QueueThread is alive, none is
\* inside _send_with_retry, and so no dequeue, publish attempt or backoff
\* sleep of the worker follows the return of stop().
C33_StopWaitsForWorker ==
    StopReturned =>
        /\ worker = 0
        /\ \A t \in DOMAIN threads.pcs : ~Alive(t)
        /\ \A t \in DOMAIN sends : ~Sending(t)

\* C37: at most one outbound worker thread is alive at any time, whatever
\* the sequence of start() and stop() calls.
C37_AtMostOneWorker ==
    /\ worker <= 1
    /\ Cardinality(DOMAIN threads.pcs) <= 1

-----------------------------------------------------------------------------
(* Properties of the boundary-condition cache, checked under CacheSpec *)

TimeSeriesCache == HostedTickableAgent.time_series_cache
CurrentStep == HostedTickableAgent.current_step

\* the series cached for an object, empty when none is
CachedSeries(object_id) ==
    LET key == cache_key(object_id, MetricsCode)
    IN  IF key \in DOMAIN TimeSeriesCache
        THEN TimeSeriesCache[key].time_series ELSE <<>>

\* the result of the last get_time_series_value is the value of the first
\* entry of the cached series with the step asked for (the current step
\* when none was given), and None when there is no such entry
GetReturnsFirstMatch ==
    lastOp.op = "get_time_series_value" =>
        LET object_id == CHOOSE o \in lastOp.ids : TRUE
            target == IF lastOp.cmd.given THEN lastOp.cmd.step ELSE CurrentStep
            series == CachedSeries(object_id)
            matches == {i \in DOMAIN series : series[i].step = target}
        IN  IF matches = {}
            THEN lastOp.result = None
            ELSE lastOp.result =
                    series[CHOOSE i \in matches : \A j \in matches : i <= j].value

\* a data update leaves the cache holding, for every object the request has
\* a series for, the last such series of the request, and what it held
\* before for every other object
UpdateReplacesSeries ==
    handled'.handler = "on_time_series_data_update" =>
        LET received == lastOp'.result
            after == TimeSeriesCache'
        IN  \A o \in ObjectIds :
                LET key == cache_key(o, MetricsCode)
                    sent == {i \in DOMAIN received : received[i].object_id = o}
                IN  IF sent = {}
                    THEN /\ key \in DOMAIN after <=> key \in DOMAIN TimeSeriesCache
                         /\ key \in DOMAIN after => after[key] = TimeSeriesCache[key]
                    ELSE /\ key \in DOMAIN after
                         /\ after[key] =
                              received[CHOOSE i \in sent : \A j \in sent : j <= i]

\* a tick makes its step the current step
TickSetsCurrentStep ==
    handled'.handler = "on_tick" => CurrentStep' = lastOp'.result.step

\* C34: after any sequence of TimeSeriesDataUpdateRequests,
\* get_time_series_value(object_id, metrics_code, step) returns the value of
\* the first entry with that step in the series most recently received for
\* the key and None, without raising, when no series is cached for the key
\* or the series has no entry for the step; an update for one key replaces
\* that key's whole series and leaves the other keys' series unchanged; with
\* step omitted the step of the last TickCmdRequest is used.
C34_BoundaryConditionCache ==
    /\ []GetReturnsFirstMatch
    /\ [][UpdateReplacesSeries]_vars
    /\ [][TickSetsCurrentStep]_vars

-----------------------------------------------------------------------------
(* Properties of the agent factories, checked under TaskInitSpec *)

\* how often create_agent of the factory of a code is called by the loop of
\* on_sim_task_init for a request, given how each creation ends
CreateAgentCalls(request, outcomes, code) ==
    LET calls == LoopResult(request, outcomes).calls
    IN  Cardinality({i \in DOMAIN calls : calls[i] = code})

\* C35: while handling one SimTaskInitRequest, create_agent is invoked
\* exactly once for each distinct agent code of the agent_list that has a
\* registered factory, never for a code without a factory, and never twice
\* for the same code; so no two of the instances created for one request
\* have the same agent code.
C35_CreateOncePerCode ==
    /\ [][handled'.handler = "on_sim_task_init"
            => /\ agentCount' - agentCount
                    <= Cardinality({handled'.cmd.agent_list[i] :
                                       i \in DOMAIN handled'.cmd.agent_list}
                                   \cap agent_factories)
               /\ queue' # queue
                    => LET created == queue'[Len(queue')].cmd.created_agent_instances
                       IN  \A i, j \in DOMAIN created :
                              created[i].agent_code = created[j].agent_code => i = j]_vars
    /\ [](handled.handler = "on_sim_task_init"
            => \A outcomes \in [1..Len(handled.cmd.agent_list) -> InitOutcomes] :
                 \A code \in AgentCodes :
                    CreateAgentCalls(handled.cmd, outcomes, code)
                        = IF /\ code \in agent_factories
                             /\ \E i \in DOMAIN handled.cmd.agent_list :
                                    handled.cmd.agent_list[i] = code
                          THEN 1 ELSE 0)

\* C38: the SimTaskInitResponse that MultiAgentCallback enqueues carries
\* command_status SUCCEED only if every agent it lists in
\* created_agent_instances returned SUCCEED from on_init, that is, was made
\* local by its on_init; an agent whose on_init returned FAILED is neither
\* listed as created nor used as the response's source_agent_instance.
C38_InitResponseListsSucceeded ==
    [][(handled'.handler = "on_sim_task_init" /\ queue' # queue)
        => LET sent == queue'[Len(queue')].cmd
           IN  /\ sent.command_status = "SUCCEED"
                    => \A i \in DOMAIN sent.created_agent_instances :
                          is_local_agent(sm', sent.created_agent_instances[i])
               /\ is_local_agent(sm', sent.source_agent_instance)]_vars

\* C39: between handler invocations every agent id in the local-agent set
\* belongs to an agent instance the callback hosts and whose context is
\* active, for any sequence of SimTaskInitRequests (also repeated for an
\* active context) and SimTaskTerminateRequests; no id of a terminated or
\* replaced agent stays in the local set.
C39_LocalAgentsHostedAndActive ==
    \A agent_id \in sm.local_agent_instances :
        \E inst \in HostedInstances :
            /\ inst.agent_id = agent_id
            /\ inst.biz_scene_instance_id \in sm.active_contexts

-----------------------------------------------------------------------------
(* The two threads and the local-agent set, checked under Spec *)

\* the worker would hand the i-th queued command to send_with_retry if it
\* dequeued it with the state manager s
Sendable(s, i) == should_send(s, queue[i].cmd)

\* C36: no response is lost to the race between the transport thread and the
\* worker: handling a SimTaskTerminateRequest does not turn a queued response
\* that the worker would have published into one it skips, and the worker
\* never skips the SimTaskTerminateResponse an agent's on_terminate returned,
\* although on_terminate removed the agent from the local set before the
\* response was enqueued.
C36_NoResponseLostToRace ==
    /\ [][handled'.handler = "on_task_terminate"
            => \A i \in DOMAIN queue : Sendable(sm, i) => Sendable(sm', i)]_vars
    /\ [](resolved.entry.origin = "on_terminate" => resolved.outcome # "skipped")

-----------------------------------------------------------------------------
(* The dispatch table and the filter, checked under FilterSpec *)

\* C40: the dispatch table is complete with respect to the filter: a command
\* should_process_message accepts in some state is of one of the five
\* Request types, an AgentInstanceStatusReport or a SimTaskInitResponse, and
\* _handle_incoming_message finds a handler for it, so no accepted command
\* is dropped for lack of a handler.
C40_DispatchComplete ==
    /\ \A cmd \in FilterCommands :
        should_process_message(sm, cmd)
            => /\ cmd.command_type \in SimCoordinationRequest \cup EchoTypes
               /\ handle_incoming_message(cmd, FALSE) = "handled"
    /\ (lastOp.op = "should_process_message" /\ lastOp.result = TRUE)
            => handle_incoming_message(lastOp.cmd, FALSE) # "no_handler"

\* the filter has just accepted a SimTaskInitResponse of a remote agent, and
\* the dispatch table has a handler for it
C40_Witness ==
    /\ Filtered({SIMCMD_TASK_INIT_RESPONSE})
    /\ lastOp.result = TRUE
    /\ lastOp.cmd.command_type \in handlers
    /\ \E cmd \in FilterCommands :
          /\ cmd.command_type = SIMCMD_AGENT_INSTANCE_STATUS_REPORT
          /\ should_process_message(sm, cmd)

====
